---------------------------- MODULE Spec2Model ----------------------------
(***************************************************************************)
(* Model of the diff-driven annotation engine of mcp-git-tools:            *)
(*   - addCommentToFile (src/src/tools/addComments.ts) with the helpers    *)
(*     formatComment and hasExistingComment (utils/branchParser),          *)
(*   - parseDiff (src/src/tools/addComments.ts),                           *)
(*   - extractBranchCode, addCommentsToDiff and addComments, also with two *)
(*     calls in flight,                                                    *)
(*   - generateCommit, generateWorkLog and the GitHub webhook handler.     *)
(* Text is modelled character by character: a string is a sequence of      *)
(* one-character strings, so that split, join, the regular expressions and *)
(* parseInt are computed the way the code computes them.                   *)
(***************************************************************************)
EXTENDS Integers, Sequences, FiniteSets, TLC

VARIABLES
    content,      \* the text of the working-tree file (what readFile returns)
    original,     \* history: the text of the file before the first call
    marks,        \* history: per line of the file, TRUE iff a call inserted it
    ncalls,       \* number of addCommentToFile calls made so far
    last,         \* the last addCommentToFile call: its arguments, the text before
                  \* it, whether it wrote the file (returned true), and whether
                  \* it repeats the arguments of an applied call directly before
    diff,         \* the diff text handed to parseDiff
    fileChanges,  \* the map parseDiff returned: a sequence of [file, lines] in key order
    pc,           \* position of the run: "start" or "done" for a function applied
                  \* once; "ready", "file", "diff", "batch" or "returned" for a
                  \* call of addComments
    fs,           \* the working tree: path -> text of the file
    fs0,          \* history: the working tree before the call of addComments
    input,        \* the request handed to addComments
    branchName,   \* the name getCurrentBranch returned
    branchResult, \* what extractBranchCode returned for branchName
    entry,        \* index of the entry of fileChanges the batch attempts next
    modifiedFiles,\* the paths addCommentsToDiff has pushed so far
    result,       \* how the promise of addComments settled
    log,          \* history: the collaborator calls of the call, in order
    commitInput,  \* the request handed to generateCommit
    staged,       \* what getStagedChanges returns: files, diff, summary
    commit,       \* how the promise of generateCommit settled
    inflight,     \* the concurrent calls of addCommentsToDiff: per call its
                  \* arguments, the map, the file operations it has issued that
                  \* have not settled, the paths pushed so far, and whether it
                  \* has returned
    events,       \* history: the file operations of the concurrent calls, as
                  \* they are issued and as they settle
    commits,      \* what getCommitsByDate returns: the commit messages of the date
    stagedFiles,  \* what getStagedFiles returns: the paths of the staged files
    workLog,      \* how the promise of generateWorkLog settled
    hooks,        \* the POST requests to the GitHub webhook: per request whether
                  \* it has arrived and was handled, its event header and payload
    sent          \* per request, the responses the handler has sent

vars == <<content, original, marks, ncalls, last, diff, fileChanges, pc,
          fs, fs0, input, branchName, branchResult, entry, modifiedFiles,
          result, log, commitInput, staged, commit, inflight, events,
          commits, stagedFiles, workLog, hooks, sent>>
fileVars == <<content, original, marks, ncalls, last>>
diffVars == <<diff, fileChanges, pc>>
callVars == <<fs, fs0, input, branchName, branchResult, entry, modifiedFiles,
              result, log>>
asyncVars == <<inflight, events>>
workLogVars == <<commits, stagedFiles, workLog>>
hookVars == <<hooks, sent>>
restVars == <<asyncVars, workLogVars, hookVars>>
toolVars == <<commitInput, staged, commit, restVars>>

-----------------------------------------------------------------------------
(* Bounds of the model *)

MaxCalls == 2
MaxDiffLines == 5

-----------------------------------------------------------------------------
(* Characters and strings *)

NL == "\n"

\* the characters of the model's texts that JavaScript's \s matches
Whitespace == {" ", "\t", "\r", NL}

Digits == {"0", "1", "2", "3", "4", "5", "6", "7", "8", "9"}

DigitVal(c) ==
    CASE c = "0" -> 0 [] c = "1" -> 1 [] c = "2" -> 2 [] c = "3" -> 3
      [] c = "4" -> 4 [] c = "5" -> 5 [] c = "6" -> 6 [] c = "7" -> 7
      [] c = "8" -> 8 [] c = "9" -> 9

\* s.startsWith(p)
StartsWith(s, p) == Len(s) >= Len(p) /\ SubSeq(s, 1, Len(p)) = p

\* s.substring(n): the text from 0-based index n on
Substring(s, n) == SubSeq(s, n + 1, Len(s))

\* index of the first NL of s, 0 when there is none
RECURSIVE FirstNL(_, _)
FirstNL(s, i) ==
    IF i > Len(s) THEN 0
    ELSE IF s[i] = NL THEN i
    ELSE FirstNL(s, i + 1)

\* s.split("\n"): the pieces between newlines; always at least one piece
RECURSIVE Split(_)
Split(s) ==
    LET i == FirstNL(s, 1) IN
    IF i = 0 THEN <<s>>
    ELSE <<SubSeq(s, 1, i - 1)>> \o Split(SubSeq(s, i + 1, Len(s)))

\* lines.join("\n")
RECURSIVE Join(_)
Join(lines) ==
    IF Len(lines) = 0 THEN <<>>
    ELSE IF Len(lines) = 1 THEN lines[1]
    ELSE lines[1] \o <<NL>> \o Join(Tail(lines))

-----------------------------------------------------------------------------
(* utils/branchParser: formatComment, hasExistingComment *)

\* `// ${branchCode}: ${comment}`
formatComment(branchCode, comment) ==
    <<"/", "/", " ">> \o branchCode \o <<":", " ">> \o comment

\* mutant of hasExistingComment: the pattern anchored at the start of the line
hasExistingCommentAnchored(line, branchCode) ==
    \E j \in 3..(Len(line) + 1) :
        /\ 2 <= Len(line)
        /\ line[1] = "/" /\ line[2] = "/"
        /\ \A k \in 3..(j - 1) : line[k] \in Whitespace
        /\ j + Len(branchCode) <= Len(line)
        /\ SubSeq(line, j, j + Len(branchCode) - 1) = branchCode
        /\ line[j + Len(branchCode)] = ":"

\* new RegExp(`//\\s*${branchCode}:`).test(line): somewhere in the line "//",
\* a run of whitespace, the branch code and ":".  A branch code (FLY, a letter,
\* "-", three digits) holds no character that is special in a pattern.
hasExistingComment(line, branchCode) ==
    \E i \in 1..Len(line) :
      \E j \in (i + 2)..(Len(line) + 1) :
        /\ i + 1 <= Len(line)
        /\ line[i] = "/" /\ line[i + 1] = "/"
        /\ \A k \in (i + 2)..(j - 1) : line[k] \in Whitespace
        /\ j + Len(branchCode) <= Len(line)
        /\ SubSeq(line, j, j + Len(branchCode) - 1) = branchCode
        /\ line[j + Len(branchCode)] = ":"

-----------------------------------------------------------------------------
(* tools/addComments: addCommentToFile *)

\* targetLine.match(/^(\s*)/)[1]: the longest prefix made of whitespace
RECURSIVE IndentLen(_, _)
IndentLen(line, i) ==
    IF i <= Len(line) /\ line[i] \in Whitespace THEN IndentLen(line, i + 1)
    ELSE i - 1

Indent(line) == SubSeq(line, 1, IndentLen(line, 1))

\* mutant of InvalidLine: the upper bound off by one (>= for >)
InvalidLineOffByOne(lineNumber, lines) ==
    lineNumber < 1 \/ lineNumber >= Len(lines)

\* lineNumber < 1 || lineNumber > lines.length
InvalidLine(lineNumber, lines) == lineNumber < 1 \/ lineNumber > Len(lines)

\* mutant of Splice: splice(targetIndex, 1, item) replaces the target line
SpliceReplace(lines, targetIndex, item) ==
    SubSeq(lines, 1, targetIndex) \o <<item>>
        \o SubSeq(lines, targetIndex + 2, Len(lines))

\* lines.splice(targetIndex, 0, item), targetIndex 0-based
Splice(lines, targetIndex, item) ==
    SubSeq(lines, 1, targetIndex) \o <<item>>
        \o SubSeq(lines, targetIndex + 1, Len(lines))

\* indent + formatComment(branchCode, comment)
FormattedComment(targetLine, branchCode, comment) ==
    Indent(targetLine) \o formatComment(branchCode, comment)

\* The body of addCommentToFile between readFile and writeFile: the text to
\* write and whether a write is issued.
Annotate(text, lineNumber, comment, branchCode) ==
    LET lines == Split(text) IN
    IF InvalidLine(lineNumber, lines)
    THEN [applied |-> FALSE, text |-> text]
    ELSE LET targetIndex == lineNumber - 1
             targetLine == lines[targetIndex + 1]
         IN IF hasExistingComment(targetLine, branchCode)
            THEN [applied |-> FALSE, text |-> text]
            ELSE [applied |-> TRUE,
                  text |-> Join(Splice(lines, targetIndex,
                              FormattedComment(targetLine, branchCode, comment)))]

-----------------------------------------------------------------------------
(* Inputs of the file specification *)

FilePath == "example.js"

\* branch codes as extractBranchCode returns them: FLYA-100, FLYB-200
BranchCodes ==
    { <<"F", "L", "Y", "A", "-", "1", "0", "0">>,
      <<"F", "L", "Y", "B", "-", "2", "0", "0">> }

\* comment texts of the request: "c" and the two-line text "a\nb"
Comments == { <<"c">>, <<"a", NL, "b">> }

\* texts of the file before the first call
InitialFiles ==
    { <<>>,                                                \* empty file
      <<"x", NL>>,                                         \* ends with a newline
      <<" ", " ", " ", " ", "r", ";", NL, "}">>,           \* "    r;" and "}"
      <<"/", "/", " ", "F", "L", "Y", "A", "-", "1", "0", "0", ":", " ", "c",
        NL, "y">>,                                         \* already tagged FLYA-100
      <<"\t", "/", "/", "F", "L", "Y", "B", "-", "2", "0", "0", ":",
        NL, " ", " ", "\r", NL, "z">> }                    \* tagged FLYB-200, blank CRLF line

\* outcome of the two file-system calls of one addCommentToFile call
IoOutcomes == {"ok", "readFails", "writeFails"}

NoCall ==
    [lineNumber |-> 0, comment |-> <<>>, branchCode |-> <<>>, io |-> "none",
     before |-> <<>>, applied |-> FALSE, rerun |-> FALSE]

NoMap == <<>>

\* an optional property of an object: left out, or present with a value
Absent == <<>>
Some(x) == <<x>>

NoInput == [comment |-> <<>>, source |-> Absent, filePath |-> Absent,
            lineNumber |-> Absent]
NoBranchResult == [branchCode |-> "null", isValid |-> FALSE, error |-> Absent]
NoMessage == [text |-> "", source |-> "", path |-> <<>>, number |-> 0]
NoResult ==
    [promise |-> "pending", success |-> FALSE, message |-> NoMessage,
     error |-> Absent, branchCode |-> Absent, filesModified |-> Absent]

\* no call of addComments is under way
CallIdle ==
    /\ fs = <<>>
    /\ fs0 = <<>>
    /\ input = NoInput
    /\ branchName = <<>>
    /\ branchResult = NoBranchResult
    /\ entry = 0
    /\ modifiedFiles = <<>>
    /\ result = NoResult
    /\ log = <<>>

NoCommitInput ==
    [includeIssues |-> Absent, includeLimitations |-> Absent,
     includeComments |-> Absent]
NoStaged == [files |-> <<>>, diff |-> <<>>, summary |-> <<>>]
NoCommit ==
    [promise |-> "pending", success |-> FALSE, commitMessage |-> Absent,
     branchCode |-> Absent, error |-> Absent]

\* no call of generateCommit is under way
CommitIdle ==
    /\ commitInput = NoCommitInput
    /\ staged = NoStaged
    /\ commit = NoCommit

\* no concurrent calls are under way
AsyncIdle ==
    /\ inflight = <<>>
    /\ events = <<>>

NoWorkLog ==
    [promise |-> "pending", success |-> FALSE, workLog |-> Absent,
     date |-> Absent, branchCode |-> Absent, error |-> Absent]

\* no call of generateWorkLog is under way
WorkLogIdle ==
    /\ commits = <<>>
    /\ stagedFiles = <<>>
    /\ workLog = NoWorkLog

\* no webhook request has arrived
HooksIdle ==
    /\ hooks = <<>>
    /\ sent = <<>>

\* none of the tools modelled further below is in use
RestIdle == AsyncIdle /\ WorkLogIdle /\ HooksIdle

\* none of the other tools is in use
ToolsIdle == CommitIdle /\ RestIdle

\* history: the marks of the file after k lines were inserted at lineNumber
InsertMarks(m, lineNumber, k) ==
    SubSeq(m, 1, lineNumber - 1) \o [i \in 1..k |-> TRUE]
        \o SubSeq(m, lineNumber, Len(m))

-----------------------------------------------------------------------------
(* The file specification: calls of addCommentToFile on one file *)

InitFile ==
    /\ content \in InitialFiles
    /\ original = content
    /\ marks = [i \in 1..Len(Split(content)) |-> FALSE]
    /\ ncalls = 0
    /\ last = NoCall
    /\ diff = <<>>
    /\ fileChanges = NoMap
    /\ pc = "idle"
    /\ CallIdle
    /\ ToolsIdle

\* One call addCommentToFile(FilePath, lineNumber, comment, branchCode).
\* readFile or writeFile may throw; the catch block returns false.  A failed
\* writeFile leaves the file as it was.
AddCommentToFile(lineNumber, comment, branchCode, io) ==
    /\ ncalls < MaxCalls
    /\ LET r == IF io = "readFails"
                THEN [applied |-> FALSE, text |-> content]
                ELSE Annotate(content, lineNumber, comment, branchCode)
           written == r.applied /\ io = "ok"
       IN /\ content' = IF written THEN r.text ELSE content
          /\ marks' = IF written
                      THEN InsertMarks(marks, lineNumber,
                             Len(Split(FormattedComment(Split(content)[lineNumber],
                                                        branchCode, comment))))
                      ELSE marks
          /\ last' = [lineNumber |-> lineNumber, comment |-> comment,
                      branchCode |-> branchCode, io |-> io,
                      before |-> content, applied |-> written,
                      rerun |-> /\ last.lineNumber = lineNumber
                                /\ last.comment = comment
                                /\ last.branchCode = branchCode
                                /\ (last.applied \/ last.rerun)]
    /\ ncalls' = ncalls + 1
    /\ UNCHANGED <<toolVars, original, diffVars, callVars>>

NextFile ==
    \E lineNumber \in (-1)..(Len(Split(content)) + 1),
       comment \in Comments, branchCode \in BranchCodes, io \in IoOutcomes :
        AddCommentToFile(lineNumber, comment, branchCode, io)

SpecFile == InitFile /\ [][NextFile]_vars

-----------------------------------------------------------------------------
(* tools/addComments: parseDiff *)

Null == "null"

\* truthiness of currentFile: neither null nor the empty string
Truthy(file) == file # Null /\ Len(file) > 0

\* the index after the run of digits that starts at index i
RECURSIVE DigitRunEnd(_, _)
DigitRunEnd(line, i) ==
    IF i <= Len(line) /\ line[i] \in Digits THEN DigitRunEnd(line, i + 1) ELSE i

\* the index after a match of \d+,?\d* that starts at index i and is followed
\* by a blank; 0 when there is none
AfterRange(line, i) ==
    LET e1 == DigitRunEnd(line, i)
        e2 == IF e1 <= Len(line) /\ line[e1] = "," THEN DigitRunEnd(line, e1 + 1)
              ELSE e1
    IN IF e1 > i /\ e2 <= Len(line) /\ line[e2] = " " THEN e2 ELSE 0

\* /@@ -\d+,?\d* \+(\d+),?\d* @@/ matched at index s: the digits of group 1,
\* <<>> when the pattern does not match there
HunkMatchAt(line, s) ==
    IF ~StartsWith(Substring(line, s - 1), <<"@", "@", " ", "-">>) THEN <<>>
    ELSE LET a == AfterRange(line, s + 4) IN
         IF a = 0 \/ ~StartsWith(Substring(line, a - 1), <<" ", "+">>) THEN <<>>
         ELSE LET b == AfterRange(line, a + 2) IN
              IF b = 0 \/ ~StartsWith(Substring(line, b - 1), <<" ", "@", "@">>)
              THEN <<>>
              ELSE SubSeq(line, a + 2, DigitRunEnd(line, a + 2) - 1)

\* line.match(/@@ -\d+,?\d* \+(\d+),?\d* @@/): group 1 of the leftmost match,
\* <<>> when the line does not match
HunkMatch(line) ==
    LET S == {s \in 1..Len(line) : HunkMatchAt(line, s) # <<>>} IN
    IF S = {} THEN <<>>
    ELSE HunkMatchAt(line, CHOOSE s \in S : \A t \in S : s <= t)

\* parseInt(digits, 10)
RECURSIVE ParseInt(_)
ParseInt(digits) ==
    IF Len(digits) = 0 THEN 0
    ELSE 10 * ParseInt(SubSeq(digits, 1, Len(digits) - 1))
           + DigitVal(digits[Len(digits)])

\* Map.prototype.has / get / set on a map kept as the sequence of its
\* entries in insertion order; set on a present key keeps the key's place
MapHas(map, key) == \E i \in 1..Len(map) : map[i].file = key

MapGet(map, key) ==
    LET i == CHOOSE i \in 1..Len(map) : map[i].file = key IN map[i].lines

\* mutant of MapSet: setting a present key moves the key to the end
MapSetMoveToEnd(map, key, value) ==
    Append(SelectSeq(map, LAMBDA e : e.file # key), [file |-> key, lines |-> value])

MapSet(map, key, value) ==
    IF MapHas(map, key)
    THEN [i \in 1..Len(map) |->
            IF map[i].file = key THEN [file |-> key, lines |-> value] ELSE map[i]]
    ELSE Append(map, [file |-> key, lines |-> value])

\* mutant of ParseLine: removal lines advance the line counter too
ParseLineCountingRemovals(st, line) ==
    IF StartsWith(line, <<"+", "+", "+", " ", "b", "/">>)
    THEN [st EXCEPT !.currentFile = Substring(line, 6),
                    !.fileChanges = MapSet(@, Substring(line, 6), <<>>)]
    ELSE IF StartsWith(line, <<"@", "@">>)
    THEN IF HunkMatch(line) # <<>>
         THEN [st EXCEPT !.currentLineNumber = ParseInt(HunkMatch(line))]
         ELSE st
    ELSE IF /\ Truthy(st.currentFile) /\ StartsWith(line, <<"+">>)
            /\ ~StartsWith(line, <<"+", "+", "+">>)
    THEN [st EXCEPT
            !.fileChanges =
                MapSet(@, st.currentFile,
                       Append(IF MapHas(st.fileChanges, st.currentFile)
                              THEN MapGet(st.fileChanges, st.currentFile)
                              ELSE <<>>,
                              st.currentLineNumber)),
            !.currentLineNumber = @ + 1]
    ELSE IF Truthy(st.currentFile)
    THEN [st EXCEPT !.currentLineNumber = @ + 1]
    ELSE st

\* mutant of ParseLine: the line counter is not advanced after an addition
ParseLineNoIncrement(st, line) ==
    IF StartsWith(line, <<"+", "+", "+", " ", "b", "/">>)
    THEN [st EXCEPT !.currentFile = Substring(line, 6),
                    !.fileChanges = MapSet(@, Substring(line, 6), <<>>)]
    ELSE IF StartsWith(line, <<"@", "@">>)
    THEN IF HunkMatch(line) # <<>>
         THEN [st EXCEPT !.currentLineNumber = ParseInt(HunkMatch(line))]
         ELSE st
    ELSE IF /\ Truthy(st.currentFile) /\ StartsWith(line, <<"+">>)
            /\ ~StartsWith(line, <<"+", "+", "+">>)
    THEN [st EXCEPT
            !.fileChanges =
                MapSet(@, st.currentFile,
                       Append(IF MapHas(st.fileChanges, st.currentFile)
                              THEN MapGet(st.fileChanges, st.currentFile)
                              ELSE <<>>,
                              st.currentLineNumber))]
    ELSE IF Truthy(st.currentFile) /\ ~StartsWith(line, <<"-">>)
    THEN [st EXCEPT !.currentLineNumber = @ + 1]
    ELSE st

\* one iteration of the loop of parseDiff over the lines of the diff
ParseLine(st, line) ==
    IF StartsWith(line, <<"+", "+", "+", " ", "b", "/">>)
    THEN [st EXCEPT !.currentFile = Substring(line, 6),
                    !.fileChanges = MapSet(@, Substring(line, 6), <<>>)]
    ELSE IF StartsWith(line, <<"@", "@">>)
    THEN IF HunkMatch(line) # <<>>
         THEN [st EXCEPT !.currentLineNumber = ParseInt(HunkMatch(line))]
         ELSE st
    ELSE IF /\ Truthy(st.currentFile) /\ StartsWith(line, <<"+">>)
            /\ ~StartsWith(line, <<"+", "+", "+">>)
    THEN [st EXCEPT
            !.fileChanges =
                MapSet(@, st.currentFile,
                       Append(IF MapHas(st.fileChanges, st.currentFile)
                              THEN MapGet(st.fileChanges, st.currentFile)
                              ELSE <<>>,
                              st.currentLineNumber)),
            !.currentLineNumber = @ + 1]
    ELSE IF Truthy(st.currentFile) /\ ~StartsWith(line, <<"-">>)
    THEN [st EXCEPT !.currentLineNumber = @ + 1]
    ELSE st

\* the state of the scan before the first line
ParseStart == [fileChanges |-> <<>>, currentFile |-> Null, currentLineNumber |-> 0]

\* the state of the scan after the lines ls
RECURSIVE ParseLines(_)
ParseLines(ls) ==
    IF Len(ls) = 0 THEN ParseStart
    ELSE ParseLine(ParseLines(SubSeq(ls, 1, Len(ls) - 1)), ls[Len(ls)])

\* parseDiff(diff)
parseDiff(text) == ParseLines(Split(text)).fileChanges

-----------------------------------------------------------------------------
(* Inputs of the locator specification *)

HeaderA == <<"+", "+", "+", " ", "b", "/", "a", ".", "j", "s">>
HunkOneLine == <<"@", "@", " ", "-", "1", " ", "+", "1", " ", "@", "@">>
HunkAt12 == <<"@", "@", " ", "-", "9", ",", "2", " ", "+", "1", "2", ",", "3", " ", "@", "@", " ", "f">>
ContextLine == <<" ", "c">>
RemovalLine == <<"-", "r">>
AdditionLine == <<"+", "a">>
IncrementLine == <<"+", "+", "+", "i", ";">>
NoNewlineMarker ==
    <<"\\", " ", "N", "o", " ", "n", "e", "w", "l", "i", "n", "e", " ", "a", "t",
      " ", "e", "n", "d", " ", "o", "f", " ", "f", "i", "l", "e">>
BlankLine == <<>>

\* the lines diff texts are made of
DiffLines ==
    { HeaderA, HunkOneLine, HunkAt12, ContextLine, RemovalLine, AdditionLine,
      IncrementLine, NoNewlineMarker, BlankLine }

\* the diff texts: up to MaxDiffLines lines joined by newlines
IsDiffText(text) ==
    \E n \in 0..MaxDiffLines : \E ls \in [1..n -> DiffLines] : text = Join(ls)

-----------------------------------------------------------------------------
(* The locator specification: parseDiff applied to a diff text *)

InitDiff ==
    /\ IsDiffText(diff)
    /\ fileChanges = NoMap
    /\ pc = "start"
    /\ content = <<>>
    /\ original = <<>>
    /\ marks = <<>>
    /\ ncalls = 0
    /\ last = NoCall
    /\ CallIdle
    /\ ToolsIdle

\* fileChanges = parseDiff(diff), as in addCommentsToDiff
ParseDiff ==
    /\ pc = "start"
    /\ fileChanges' = parseDiff(diff)
    /\ pc' = "done"
    /\ UNCHANGED <<toolVars, diff, fileVars, callVars>>

NextDiff == ParseDiff

SpecDiff == InitDiff /\ [][NextDiff]_vars

-----------------------------------------------------------------------------
(* The multi-file locator specification: parseDiff applied to texts that   *)
(* name several files                                                      *)

MaxMultiLines == 5

HeaderB == <<"+", "+", "+", " ", "b", "/", "b", ".", "j", "s">>
\* a file header with an empty path: currentFile becomes the empty string
HeaderNoPath == <<"+", "+", "+", " ", "b", "/">>

\* the hunk header of a combined diff, which the pattern of parseDiff does not
\* match
HunkCombined ==
    <<"@", "@", "@", " ", "-", "1", " ", "-", "1", " ", "+", "1", " ", "@", "@", "@">>

\* the lines the multi-file texts are made of
MultiLines ==
    { HeaderA, HeaderB, HeaderNoPath, HunkOneLine, HunkCombined, AdditionLine,
      ContextLine, BlankLine }

\* the multi-file texts: up to MaxMultiLines lines joined by newlines
IsMultiText(text) ==
    \E n \in 0..MaxMultiLines : \E ls \in [1..n -> MultiLines] : text = Join(ls)

InitMulti ==
    /\ IsMultiText(diff)
    /\ fileChanges = NoMap
    /\ pc = "start"
    /\ content = <<>>
    /\ original = <<>>
    /\ marks = <<>>
    /\ ncalls = 0
    /\ last = NoCall
    /\ CallIdle
    /\ ToolsIdle

SpecMulti == InitMulti /\ [][NextDiff]_vars

-----------------------------------------------------------------------------
(* utils/branchParser: extractBranchCode *)

UpperLetters ==
    { "A", "B", "C", "D", "E", "F", "G", "H", "I", "J", "K", "L", "M",
      "N", "O", "P", "Q", "R", "S", "T", "U", "V", "W", "X", "Y", "Z" }

\* String.prototype.trim: the text without leading and trailing white space
Trim(s) ==
    IF \A i \in 1..Len(s) : s[i] \in Whitespace THEN <<>>
    ELSE LET first == CHOOSE i \in 1..Len(s) :
                        s[i] \notin Whitespace /\ \A g \in 1..(i - 1) : s[g] \in Whitespace
             lst == CHOOSE i \in 1..Len(s) :
                        s[i] \notin Whitespace /\ \A g \in (i + 1)..Len(s) : s[g] \in Whitespace
         IN SubSeq(s, first, lst)

\* mutant of BranchCodeAt: any three characters pass for the digits
BranchCodeAtAnyThree(name, i) ==
    /\ i + 7 <= Len(name)
    /\ name[i] = "F" /\ name[i + 1] = "L" /\ name[i + 2] = "Y"
    /\ name[i + 3] \in UpperLetters
    /\ name[i + 4] = "-"

\* BRANCH_CODE_REGEX = /FLY[A-Z]-\d{3}/ matches at index i of the name
BranchCodeAt(name, i) ==
    /\ i + 7 <= Len(name)
    /\ name[i] = "F" /\ name[i + 1] = "L" /\ name[i + 2] = "Y"
    /\ name[i + 3] \in UpperLetters
    /\ name[i + 4] = "-"
    /\ name[i + 5] \in Digits /\ name[i + 6] \in Digits /\ name[i + 7] \in Digits

\* branchName.match(BRANCH_CODE_REGEX): match[0] of the leftmost match, <<>>
\* when the pattern matches nowhere
MatchBranchCode(name) ==
    IF \E i \in 1..Len(name) : BranchCodeAt(name, i)
    THEN LET i == CHOOSE i \in 1..Len(name) :
                    BranchCodeAt(name, i) /\ \A g \in 1..(i - 1) : ~BranchCodeAt(name, g)
         IN SubSeq(name, i, i + 7)
    ELSE <<>>

extractBranchCode(name) ==
    IF Len(name) = 0 \/ Trim(name) = <<>>
    THEN [branchCode |-> Null, isValid |-> FALSE,
          error |-> Some("Branch name is empty")]
    ELSE IF MatchBranchCode(name) = <<>>
    THEN [branchCode |-> Null, isValid |-> FALSE,
          error |-> Some("No valid branch code found. Expected format: FLY[A-Z]-[0-9]{3}")]
    ELSE [branchCode |-> MatchBranchCode(name), isValid |-> TRUE, error |-> Absent]

-----------------------------------------------------------------------------
(* The branch-name specification: extractBranchCode applied to a name *)

MaxPieces == 5

\* the pieces branch names are made of
BranchPieces ==
    { <<"F", "L", "Y">>, <<"F">>, <<"f">>, <<"-">>, <<"1", "2">>,
      <<"1", "2", "3">>, <<"4">>, <<"x", "/">>, <<" ">> }

RECURSIVE Concat(_)
Concat(ps) == IF Len(ps) = 0 THEN <<>> ELSE ps[1] \o Concat(Tail(ps))

\* the branch names: up to MaxPieces pieces put together
IsBranchName(name) ==
    \E n \in 0..MaxPieces : \E ps \in [1..n -> BranchPieces] : name = Concat(ps)

InitBranch ==
    /\ IsBranchName(branchName)
    /\ branchResult = NoBranchResult
    /\ pc = "start"
    /\ fs = <<>>
    /\ fs0 = <<>>
    /\ input = NoInput
    /\ entry = 0
    /\ modifiedFiles = <<>>
    /\ result = NoResult
    /\ log = <<>>
    /\ diff = <<>>
    /\ fileChanges = NoMap
    /\ content = <<>>
    /\ original = <<>>
    /\ marks = <<>>
    /\ ncalls = 0
    /\ last = NoCall
    /\ ToolsIdle

\* branchResult = extractBranchCode(branchName), as in addComments
ExtractBranchCode ==
    /\ pc = "start"
    /\ branchResult' = extractBranchCode(branchName)
    /\ pc' = "done"
    /\ UNCHANGED <<toolVars, branchName, fs, fs0, input, entry, modifiedFiles, result, log,
                   diff, fileChanges, fileVars>>

NextBranch == ExtractBranchCode

SpecBranch == InitBranch /\ [][NextBranch]_vars

-----------------------------------------------------------------------------
(* tools/addComments: addCommentToFile on a working tree, addCommentsToDiff *)
(* and addComments                                                         *)

\* one collaborator call as the history records it
Call(op, file, line, ok) == [op |-> op, file |-> file, line |-> line, ok |-> ok]

\* addCommentToFile(filePath, lineNumber, comment, branchCode) on the working
\* tree files: what it returns, the tree afterwards and the collaborator calls
\* it makes.  readFile throws for a missing file or when io says so, writeFile
\* when io says so; the catch block returns false.  A failed writeFile leaves
\* the file as it was.
addCommentToFile(files, filePath, lineNumber, comment, branchCode, io) ==
    LET readOk == io # "readFails" /\ filePath \in DOMAIN files
        r == IF readOk
             THEN Annotate(files[filePath], lineNumber, comment, branchCode)
             ELSE [applied |-> FALSE, text |-> <<>>]
        writeOk == r.applied /\ io # "writeFails"
    IN [success |-> writeOk,
        fs |-> IF writeOk THEN [files EXCEPT ![filePath] = r.text] ELSE files,
        calls |-> <<Call("readFile", filePath, lineNumber, readOk)>>
                    \o IF r.applied
                       THEN <<Call("writeFile", filePath, lineNumber, writeOk)>>
                       ELSE <<>>]

\* mutant of AnchorLine: the last recorded line is the target
AnchorLineLast(lineNumbers) == lineNumbers[Len(lineNumbers)]

\* the line addCommentsToDiff targets in a file: lineNumbers[0]
AnchorLine(lineNumbers) == lineNumbers[1]

\* the first entry of the map at or after index k that the loop of
\* addCommentsToDiff attempts (lineNumbers.length > 0), Len(map) + 1 when
\* there is none
NextAttempt(map, k) ==
    IF \E i \in k..Len(map) : Len(map[i].lines) > 0
    THEN CHOOSE i \in k..Len(map) :
            Len(map[i].lines) > 0 /\ \A g \in k..(i - 1) : Len(map[g].lines) = 0
    ELSE Len(map) + 1

\* mutant of NextEntry: the loop stops at the first file that is not modified
NextEntryStopOnFailure(map, k, success) ==
    IF success THEN NextAttempt(map, k + 1) ELSE Len(map) + 1

\* the entry the loop of addCommentsToDiff attempts after entry k, whatever
\* addCommentToFile returned for entry k
NextEntry(map, k, success) == NextAttempt(map, k + 1)

\* a message: the template literal and the values it interpolates
Message(text, source, path, number) ==
    [text |-> text, source |-> source, path |-> path, number |-> number]

\* the promise of addComments fulfilled with a result object
Fulfilled(success, message, error, branchCode, filesModified) ==
    [promise |-> "fulfilled", success |-> success, message |-> message,
     error |-> error, branchCode |-> branchCode, filesModified |-> filesModified]

\* mutant of Caught: the error leaves addComments
Rethrown(error) ==
    [promise |-> "rejected", success |-> FALSE, message |-> NoMessage,
     error |-> Some(error), branchCode |-> Absent, filesModified |-> Absent]

\* the catch block of addComments
Caught(error) ==
    Fulfilled(FALSE, Message("Error adding comments", "", <<>>, 0), Some(error),
              Absent, Absent)

\* const source = input.source || "staged"
Source(in) == IF in.source = Absent THEN "staged" ELSE in.source[1]

\* mutant of IsEmptyDiff: the text is compared without trimming
IsEmptyDiffNoTrim(text) == Len(text) = 0

\* !diff || diff.trim() === ""
IsEmptyDiff(text) == Len(text) = 0 \/ Trim(text) = <<>>

\* what addComments returns after addCommentsToDiff
BatchResult(branchCode, filesModified) ==
    Fulfilled(Len(filesModified) > 0,
              IF Len(filesModified) > 0
              THEN Message("Comments added to ${filesModified.length} file(s)", "",
                           <<>>, Len(filesModified))
              ELSE Message("No comments were added (may already exist or no valid lines found)",
                           "", <<>>, 0),
              Absent, Some(branchCode), Some(filesModified))

-----------------------------------------------------------------------------
(* Inputs of the request specification *)

PathA == Substring(HeaderA, 6)
PathB == Substring(HeaderB, 6)

\* texts of the working-tree files: "x" and "y"; a first line tagged FLYA-100
\* behind a tab, then "y"; "a" and "y", the text whose first line is the line
\* the diff texts add
PlainFile == <<"x", NL, "y">>
TaggedFile == <<"\t", "/", "/", " ", "F", "L", "Y", "A", "-", "1", "0", "0", ":", " ", "c", NL, "y">>
AddedFile == <<"a", NL, "y">>
CallFiles == {PlainFile, TaggedFile, AddedFile}

\* names of the current branch: one carrying FLYA-100, one without a code, the
\* empty name of a detached head, one with two digits only
CallBranchNames ==
    { <<"F", "L", "Y", "A", "-", "1", "0", "0", "-", "f", "i", "x">>,
      <<"m", "a", "i", "n">>,
      <<>>,
      <<"x", "/", "F", "L", "Y", "F", "-", "1", "2", "-", "y">> }

OldHeaderA == <<"-", "-", "-", " ", "a", "/", "a", ".", "j", "s">>
OldHeaderB == <<"-", "-", "-", " ", "a", "/", "b", ".", "j", "s">>
HunkGrow == <<"@", "@", " ", "-", "1", " ", "+", "1", ",", "2", " ", "@", "@">>
HunkDelete == <<"@", "@", " ", "-", "1", " ", "+", "0", ",", "0", " ", "@", "@">>

\* diff texts of the version-control collaborator
EmptyDiff == <<>>
BlankDiff == <<" ", NL>>
\* a.js: line 1 replaced
DiffOneFile ==
    Join(<<OldHeaderA, HeaderA, HunkOneLine, RemovalLine, AdditionLine, BlankLine>>)
\* a.js: line 1 replaced; b.js: line 1 replaced by two lines
DiffTwoFiles ==
    Join(<<OldHeaderA, HeaderA, HunkOneLine, RemovalLine, AdditionLine,
           OldHeaderB, HeaderB, HunkGrow, RemovalLine, AdditionLine, AdditionLine,
           BlankLine>>)
\* b.js: a line added at 13; a.js: line 1 replaced
DiffFarThenNear ==
    Join(<<OldHeaderB, HeaderB, HunkAt12, ContextLine, AdditionLine, ContextLine,
           OldHeaderA, HeaderA, HunkOneLine, RemovalLine, AdditionLine, BlankLine>>)
\* b.js: two hunks, line 1 replaced and a line added at 13
DiffTwoHunks ==
    Join(<<OldHeaderB, HeaderB, HunkOneLine, RemovalLine, AdditionLine,
           HunkAt12, ContextLine, AdditionLine, ContextLine, BlankLine>>)
\* a.js: its only line removed
DiffDeleteOnly == Join(<<OldHeaderA, HeaderA, HunkDelete, RemovalLine, BlankLine>>)
\* a.js: its only line removed; b.js: line 1 replaced by two lines
DiffDeleteThenGrow ==
    Join(<<OldHeaderA, HeaderA, HunkDelete, RemovalLine,
           OldHeaderB, HeaderB, HunkGrow, RemovalLine, AdditionLine, AdditionLine,
           BlankLine>>)

CallDiffs ==
    { EmptyDiff, BlankDiff, DiffOneFile, DiffTwoFiles, DiffFarThenNear,
      DiffTwoHunks, DiffDeleteOnly, DiffDeleteThenGrow }

\* the requests: comment is required, the other properties are optional
Requests ==
    [comment : Comments,
     source : {Absent, Some("staged"), Some("unstaged"), Some("file")},
     filePath : {Absent, Some(PathA)},
     lineNumber : {Absent, Some(0), Some(1), Some(3)}]

-----------------------------------------------------------------------------
(* The request specification: one call of addComments *)

InitCall ==
    /\ fs \in [{PathA, PathB} -> CallFiles]
    /\ fs0 = fs
    /\ input = NoInput
    /\ branchName = <<>>
    /\ branchResult = NoBranchResult
    /\ entry = 0
    /\ modifiedFiles = <<>>
    /\ result = NoResult
    /\ log = <<>>
    /\ pc = "ready"
    /\ diff = <<>>
    /\ fileChanges = NoMap
    /\ content = <<>>
    /\ original = <<>>
    /\ marks = <<>>
    /\ ncalls = 0
    /\ last = NoCall
    /\ ToolsIdle

\* addComments(in) up to its second await: getCurrentBranch settles (ok says
\* whether it resolves, with the name, or rejects), extractBranchCode, the
\* validity test, the choice of the source and the test of lineNumber
GetCurrentBranch(in, name, ok) ==
    /\ pc = "ready"
    /\ input' = in
    /\ log' = Append(log, Call("getCurrentBranch", <<>>, 0, ok))
    /\ IF ~ok
       THEN /\ result' = Caught("getCurrentBranch rejected")
            /\ pc' = "returned"
            /\ UNCHANGED <<branchName, branchResult>>
       ELSE LET br == extractBranchCode(name) IN
            /\ branchName' = name
            /\ branchResult' = br
            /\ IF ~br.isValid \/ ~Truthy(br.branchCode)
               THEN /\ result' = Fulfilled(FALSE,
                                    Message("Failed to extract branch code", "", <<>>, 0),
                                    br.error, Absent, Absent)
                    /\ pc' = "returned"
               ELSE IF Source(in) = "file" /\ in.filePath # Absent
               THEN IF in.lineNumber = Absent \/ in.lineNumber[1] = 0
                    THEN /\ result' = Fulfilled(FALSE,
                                        Message("Line number required when specifying a file",
                                                "", <<>>, 0),
                                        Some("Missing lineNumber parameter"), Absent, Absent)
                         /\ pc' = "returned"
                    ELSE /\ pc' = "file"
                         /\ UNCHANGED result
               ELSE /\ pc' = "diff"
                    /\ UNCHANGED result
    /\ UNCHANGED <<toolVars, fs, fs0, entry, modifiedFiles, diff, fileChanges, fileVars>>

\* source "file": addCommentToFile on input.filePath settles, addComments
\* returns
AddCommentToNamedFile(io) ==
    /\ pc = "file"
    /\ LET filePath == input.filePath[1]
           lineNumber == input.lineNumber[1]
           r == addCommentToFile(fs, filePath, lineNumber, input.comment,
                                 branchResult.branchCode, io)
           filesModified == IF r.success THEN <<filePath>> ELSE <<>>
       IN /\ fs' = r.fs
          /\ log' = log \o r.calls
          /\ modifiedFiles' = filesModified
          /\ result' =
                Fulfilled(r.success,
                          IF r.success
                          THEN Message("Comment added to ${input.filePath} at line ${input.lineNumber}",
                                       "", filePath, lineNumber)
                          ELSE Message("Failed to add comment (may already exist or invalid line number)",
                                       "", <<>>, 0),
                          Absent, Some(branchResult.branchCode), Some(filesModified))
    /\ pc' = "returned"
    /\ UNCHANGED <<toolVars, fs0, input, branchName, branchResult, entry, diff, fileChanges,
                   fileVars>>

\* getStagedDiff or getUnstagedDiff settles (ok says whether it resolves, with
\* the text, or rejects); the emptiness test; addCommentsToDiff up to its
\* first await: parseDiff and the entries without recorded lines
GetDiff(text, ok) ==
    /\ pc = "diff"
    /\ log' = Append(log, Call(IF Source(input) = "staged" THEN "getStagedDiff"
                                                           ELSE "getUnstagedDiff",
                               <<>>, 0, ok))
    /\ IF ~ok
       THEN /\ result' = Caught("diff rejected")
            /\ pc' = "returned"
            /\ UNCHANGED <<diff, fileChanges, entry>>
       ELSE IF IsEmptyDiff(text)
       THEN /\ diff' = text
            /\ result' = Fulfilled(FALSE,
                                   Message("No ${source} changes found", Source(input), <<>>, 0),
                                   Absent, Some(branchResult.branchCode), Absent)
            /\ pc' = "returned"
            /\ UNCHANGED <<fileChanges, entry>>
       ELSE LET map == parseDiff(text)
                first == NextAttempt(map, 1)
            IN /\ diff' = text
               /\ fileChanges' = map
               /\ entry' = first
               /\ IF first > Len(map)
                  THEN /\ result' = BatchResult(branchResult.branchCode, <<>>)
                       /\ pc' = "returned"
                  ELSE /\ pc' = "batch"
                       /\ UNCHANGED result
    /\ UNCHANGED <<toolVars, fs, fs0, input, branchName, branchResult, modifiedFiles, fileVars>>

\* one iteration of the loop of addCommentsToDiff: addCommentToFile on the
\* entry's file settles, the path is pushed on success, and the loop moves on;
\* after the last entry addComments returns
AttemptFile(io) ==
    /\ pc = "batch"
    /\ LET e == fileChanges[entry]
           r == addCommentToFile(fs, e.file, AnchorLine(e.lines), input.comment,
                                 branchResult.branchCode, io)
           pushed == IF r.success THEN Append(modifiedFiles, e.file) ELSE modifiedFiles
           next == NextEntry(fileChanges, entry, r.success)
       IN /\ fs' = r.fs
          /\ log' = log \o r.calls
          /\ modifiedFiles' = pushed
          /\ entry' = next
          /\ IF next > Len(fileChanges)
             THEN /\ result' = BatchResult(branchResult.branchCode, pushed)
                  /\ pc' = "returned"
             ELSE UNCHANGED <<result, pc>>
    /\ UNCHANGED <<toolVars, fs0, input, branchName, branchResult, diff, fileChanges, fileVars>>

NextCall ==
    \/ \E in \in Requests, name \in CallBranchNames, ok \in BOOLEAN :
            GetCurrentBranch(in, name, ok)
    \/ \E io \in IoOutcomes : AddCommentToNamedFile(io)
    \/ \E text \in CallDiffs, ok \in BOOLEAN : GetDiff(text, ok)
    \/ \E io \in IoOutcomes : AttemptFile(io)

SpecCall == InitCall /\ [][NextCall]_vars

-----------------------------------------------------------------------------
(* tools/generateCommit *)

\* String.prototype.toLowerCase on the letters of the model's texts
LowerOf ==
    "A" :> "a" @@ "B" :> "b" @@ "C" :> "c" @@ "D" :> "d" @@ "E" :> "e" @@
    "F" :> "f" @@ "G" :> "g" @@ "H" :> "h" @@ "I" :> "i" @@ "J" :> "j" @@
    "K" :> "k" @@ "L" :> "l" @@ "M" :> "m" @@ "N" :> "n" @@ "O" :> "o" @@
    "P" :> "p" @@ "Q" :> "q" @@ "R" :> "r" @@ "S" :> "s" @@ "T" :> "t" @@
    "U" :> "u" @@ "V" :> "v" @@ "W" :> "w" @@ "X" :> "x" @@ "Y" :> "y" @@
    "Z" :> "z"

ToLowerCase(s) ==
    [i \in 1..Len(s) |-> IF s[i] \in UpperLetters THEN LowerOf[s[i]] ELSE s[i]]

\* String.prototype.includes for a non-empty needle
Includes(s, needle) ==
    \E i \in 1..(Len(s) - Len(needle) + 1) :
        SubSeq(s, i, i + Len(needle) - 1) = needle

\* Array.prototype.join(sep)
RECURSIVE JoinWith(_, _)
JoinWith(items, sep) ==
    IF Len(items) = 0 THEN <<>>
    ELSE IF Len(items) = 1 THEN items[1]
    ELSE items[1] \o sep \o JoinWith(Tail(items), sep)

\* the decimal digits of a natural number, as template literals print it
RECURSIVE NumChars(_)
NumChars(n) ==
    LET d == CHOOSE c \in Digits : DigitVal(c) = n % 10
    IN IF n < 10 THEN <<d>> ELSE Append(NumChars(n \div 10), d)

\* Array.prototype.slice(0, n)
Slice(items, n) == SubSeq(items, 1, IF Len(items) < n THEN Len(items) ELSE n)

\* generateSummary(diff, fileNames)
generateSummary(text, fileNames) ==
    LET lines == Split(text)
        addedLines == SelectSeq(lines, LAMBDA l :
                        StartsWith(l, <<"+">>) /\ ~StartsWith(l, <<"+", "+", "+">>))
        removedLines == SelectSeq(lines, LAMBDA l :
                        StartsWith(l, <<"-">>) /\ ~StartsWith(l, <<"-", "-", "-">>))
        addedContent == ToLowerCase(JoinWith(addedLines, <<" ">>))
    IN IF \E i \in 1..Len(fileNames) : Includes(fileNames[i], <<"t", "e", "s", "t">>)
       THEN <<"a", "d", "d", "e", "d", " ", "t", "e", "s", "t", "s">>
       ELSE IF Len(addedLines) > Len(removedLines) * 2
       THEN <<"a", "d", "d", "e", "d", " ", "n", "e", "w", " ", "f", "e", "a", "t", "u", "r", "e",
        "s">>
       ELSE IF Len(removedLines) > Len(addedLines) * 2
       THEN <<"r", "e", "m", "o", "v", "e", "d", " ", "c", "o", "d", "e">>
       ELSE IF \/ Includes(addedContent, <<"f", "u", "n", "c", "t", "i", "o", "n">>)
               \/ Includes(addedContent, <<"c", "o", "n", "s", "t">>)
               \/ Includes(addedContent, <<"l", "e", "t">>)
       THEN <<"i", "m", "p", "l", "e", "m", "e", "n", "t", "e", "d", " ", "f", "u", "n", "c", "t",
        "i", "o", "n", "a", "l", "i", "t", "y">>
       ELSE IF Includes(addedContent, <<"f", "i", "x">>) \/ Includes(addedContent, <<"b", "u",
        "g">>)
       THEN <<"f", "i", "x", "e", "d", " ", "b", "u", "g", "s">>
       ELSE IF Includes(addedContent, <<"r", "e", "f", "a", "c", "t", "o", "r">>)
       THEN <<"r", "e", "f", "a", "c", "t", "o", "r", "e", "d", " ", "c", "o", "d", "e">>
       ELSE IF Includes(addedContent, <<"u", "p", "d", "a", "t", "e">>)
       THEN <<"u", "p", "d", "a", "t", "e", "d", " ", "i", "m", "p", "l", "e", "m", "e", "n", "t",
        "a", "t", "i", "o", "n">>
       ELSE IF Len(fileNames) = 1
       THEN <<"u", "p", "d", "a", "t", "e", "d", " ", "f", "i", "l", "e">>
       ELSE <<"u", "p", "d", "a", "t", "e", "d", " ", "m", "u", "l", "t", "i", "p", "l", "e", " ",
        "f", "i", "l", "e", "s">>

\* generateIssuesAddressed(diff, summary)
RECURSIVE FileIssues(_)
FileIssues(summary) ==
    IF Len(summary) = 0 THEN <<>>
    ELSE LET change == summary[1] IN
         (IF change.additions > 0
          THEN <<<<"A", "d", "d", "e", "d", " ">> \o NumChars(change.additions) \o <<" ", "l",
        "i", "n", "e", "(", "s", ")", " ", "i", "n", " ">>
                    \o change.file>>
          ELSE <<>>)
         \o (IF change.deletions > 0
             THEN <<<<"R", "e", "m", "o", "v", "e", "d", " ">> \o NumChars(change.deletions)
                       \o <<" ", "l", "i", "n", "e", "(", "s", ")", " ", "f", "r", "o", "m",
        " ">> \o change.file>>
             ELSE <<>>)
         \o FileIssues(Tail(summary))

generateIssuesAddressed(text, summary) ==
    LET lines == Split(text)
        addedLines == SelectSeq(lines, LAMBDA l :
                        StartsWith(l, <<"+">>) /\ ~StartsWith(l, <<"+", "+", "+">>))
        Some2(a, b) == \E i \in 1..Len(addedLines) :
                            Includes(addedLines[i], a) \/ Includes(addedLines[i], b)
    IN Slice(FileIssues(summary)
               \o (IF Some2(<<"T", "O", "D", "O">>, <<"F", "I", "X", "M", "E">>)
                   THEN <<<<"A", "d", "d", "e", "d", " ", "T", "O", "D", "O", "/", "F", "I", "X",
        "M", "E", " ", "m", "a", "r", "k", "e", "r", "s", " ", "f", "o", "r", " ", "f", "u", "t",
        "u", "r", "e", " ", "w", "o", "r", "k">>>> ELSE <<>>)
               \o (IF Some2(<<"t", "e", "s", "t">>, <<"s", "p", "e", "c">>)
                   THEN <<<<"A", "d", "d", "e", "d", " ", "t", "e", "s", "t", " ", "c", "o", "v",
        "e", "r", "a", "g", "e">>>> ELSE <<>>),
             3)

\* String.prototype.endsWith
EndsWith(s, suffix) ==
    Len(s) >= Len(suffix) /\ SubSeq(s, Len(s) - Len(suffix) + 1, Len(s)) = suffix

\* generateLimitations(summary)
generateLimitations(summary) ==
    LET hasTests == \E i \in 1..Len(summary) :
                        \/ Includes(summary[i].file, <<"t", "e", "s", "t">>)
                        \/ Includes(summary[i].file, <<"s", "p", "e", "c">>)
        hasDocumentation == \E i \in 1..Len(summary) :
                        \/ EndsWith(summary[i].file, <<".", "m", "d">>)
                        \/ Includes(summary[i].file, <<"R", "E", "A", "D", "M", "E">>)
                        \/ Includes(summary[i].file, <<"d", "o", "c">>)
        limitations ==
            (IF ~hasTests THEN <<<<"N", "o", " ", "t", "e", "s", "t", " ", "c", "o", "v", "e",
        "r", "a", "g", "e", " ", "i", "n", "c", "l", "u", "d", "e", "d">>>> ELSE <<>>)
            \o (IF ~hasDocumentation THEN <<<<"D", "o", "c", "u", "m", "e", "n", "t", "a", "t",
        "i", "o", "n", " ", "n", "o", "t", " ", "u", "p", "d", "a", "t", "e", "d">>>> ELSE <<>>)
    IN Slice(IF Len(limitations) = 0
             THEN <<<<"M", "a", "y", " ", "r", "e", "q", "u", "i", "r", "e", " ", "a", "d", "d",
        "i", "t", "i", "o", "n", "a", "l", " ", "t", "e", "s", "t", "i", "n", "g">>>>
             ELSE limitations, 2)

RECURSIVE TotalChanges(_)
TotalChanges(summary) ==
    IF Len(summary) = 0 THEN 0 ELSE summary[1].changes + TotalChanges(Tail(summary))

\* generateComments(summary)
generateComments(summary) ==
    LET comments ==
            (IF TotalChanges(summary) > 100
             THEN <<<<"L", "a", "r", "g", "e", " ", "c", "h", "a", "n", "g", "e", "s", "e", "t",
        " ", "-", " ", "c", "o", "n", "s", "i", "d", "e", "r", " ", "b", "r", "e", "a", "k", "i",
        "n", "g", " ", "i", "n", "t", "o", " ", "s", "m", "a", "l", "l", "e", "r", " ", "c", "o",
        "m", "m", "i", "t", "s">>>>
             ELSE IF TotalChanges(summary) < 5
             THEN <<<<"M", "i", "n", "o", "r", " ", "c", "h", "a", "n", "g", "e", "s", " ", "m",
        "a", "d", "e">>>>
             ELSE <<>>)
            \o (IF Len(summary) > 5
                THEN <<<<"M", "o", "d", "i", "f", "i", "e", "d", " ">> \o NumChars(Len(summary))
                          \o <<" ", "f", "i", "l", "e", "s", " ", "-", " ", "r", "e", "v", "i",
        "e", "w", " ", "c", "a", "r", "e", "f", "u", "l", "l", "y">>>>
                ELSE <<>>)
    IN Slice(IF Len(comments) = 0
             THEN <<<<"R", "e", "v", "i", "e", "w", " ", "c", "h", "a", "n", "g", "e", "s", " ",
        "b", "e", "f", "o", "r", "e", " ", "m", "e", "r", "g", "i", "n", "g">>>>
             ELSE comments, 2)

\* a section of the commit message: "\n\n<title>" and "\n- <item>" per item
RECURSIVE Items(_)
Items(items) ==
    IF Len(items) = 0 THEN <<>>
    ELSE <<NL, "-", " ">> \o items[1] \o Items(Tail(items))

Section(title, items) == <<NL, NL>> \o title \o Items(items)

\* if (summary.length > 30) summary = summary.substring(0, 27) + "..."
Truncate(summary) ==
    IF Len(summary) > 30 THEN SubSeq(summary, 1, 27) \o <<".", ".", ".">>
    ELSE summary

\* mutant of Header: the colon is left out
HeaderNoColon(branchCode, summary) == branchCode \o <<" ">> \o summary

\* `${branchCode}: ${summary}`
Header(branchCode, summary) == branchCode \o <<":", " ">> \o summary

\* input.includeX !== false
Included(flag) == flag # Some(FALSE)

\* the commit message generateCommit builds
CommitMessage(branchCode, changes, in) ==
    Header(branchCode, Truncate(generateSummary(changes.diff, changes.files)))
    \o (IF Included(in.includeIssues)
        THEN Section(<<"I", "s", "s", "u", "e", "s", " ", "A", "d", "d", "r", "e", "s", "s", "e",
        "d", ":">>,
                     generateIssuesAddressed(changes.diff, changes.summary))
        ELSE <<>>)
    \o (IF Included(in.includeLimitations)
        THEN Section(<<"L", "i", "m", "i", "t", "a", "t", "i", "o", "n", "s",
        ":">>, generateLimitations(changes.summary))
        ELSE <<>>)
    \o (IF Included(in.includeComments)
        THEN Section(<<"C", "o", "m", "m", "e", "n", "t", "s",
        ":">>, generateComments(changes.summary))
        ELSE <<>>)

\* the promise of generateCommit fulfilled with a result object
CommitResult(success, commitMessage, branchCode, error) ==
    [promise |-> "fulfilled", success |-> success, commitMessage |-> commitMessage,
     branchCode |-> branchCode, error |-> error]

-----------------------------------------------------------------------------
(* The commit-message specification: one call of generateCommit *)

MaxCommitLines == 3

\* the lines staged diffs are made of
CommitLines ==
    { HeaderA, OldHeaderA, RemovalLine, AdditionLine, <<"+", "l", "e", "t">>, <<"+", "F", "i",
        "x">>,
      <<"+", "r", "e", "f", "a", "c", "t", "o", "r">>, <<"+", "u", "p", "d", "a", "t", "e">> }

\* the lists of staged files
StagedFileLists ==
    { <<>>, <<<<"a", ".", "j", "s">>>>, <<<<"a", ".", "t", "e", "s", "t", ".", "j",
        "s">>>>, <<<<"a", ".", "j", "s">>, <<"b", ".", "m", "d">>>> }

\* what --numstat reports for a staged file: additions and deletions
NumStats == { <<1, 0>>, <<120, 2>> }

\* the requests: every property is optional
CommitInputs ==
    { NoCommitInput,
      [includeIssues |-> Some(FALSE), includeLimitations |-> Absent,
       includeComments |-> Some(TRUE)],
      [includeIssues |-> Some(FALSE), includeLimitations |-> Some(FALSE),
       includeComments |-> Some(FALSE)] }

CommitBranchNames == { <<"F", "L", "Y", "A", "-", "1", "0", "0", "-", "f", "i", "x">>, <<"m", "a",
        "i", "n">> }

\* staged is a value getStagedChanges resolves with: a list of files, a diff
\* text of up to MaxCommitLines lines and the --numstat summary of each file
InitCommit ==
    /\ commitInput \in CommitInputs
    /\ \E files \in StagedFileLists : \E stats \in [1..Len(files) -> NumStats] :
        \E n \in 0..MaxCommitLines : \E ls \in [1..n -> CommitLines] :
            staged =
                [files |-> files, diff |-> Join(ls),
                 summary |-> [i \in 1..Len(files) |->
                                [file |-> files[i], additions |-> stats[i][1],
                                 deletions |-> stats[i][2],
                                 changes |-> stats[i][1] + stats[i][2]]]]
    /\ commit = NoCommit
    /\ branchName \in CommitBranchNames
    /\ branchResult = NoBranchResult
    /\ pc = "start"
    /\ fs = <<>>
    /\ fs0 = <<>>
    /\ input = NoInput
    /\ entry = 0
    /\ modifiedFiles = <<>>
    /\ result = NoResult
    /\ log = <<>>
    /\ diff = <<>>
    /\ fileChanges = NoMap
    /\ content = <<>>
    /\ original = <<>>
    /\ marks = <<>>
    /\ ncalls = 0
    /\ last = NoCall
    /\ RestIdle

\* generateCommit(commitInput): getCurrentBranch resolves with branchName or
\* rejects, getStagedChanges resolves with staged or rejects
GenerateCommit(branchOk, stagedOk) ==
    /\ pc = "start"
    /\ pc' = "done"
    /\ IF ~branchOk
       THEN /\ commit' = CommitResult(FALSE, Absent, Absent,
                                      Some("getCurrentBranch rejected"))
            /\ UNCHANGED branchResult
       ELSE LET br == extractBranchCode(branchName) IN
            /\ branchResult' = br
            /\ commit' =
                IF ~br.isValid \/ ~Truthy(br.branchCode)
                THEN CommitResult(FALSE, Absent, Absent,
                                  IF br.error = Absent THEN Some("Invalid branch code")
                                  ELSE br.error)
                ELSE IF ~stagedOk
                THEN CommitResult(FALSE, Absent, Absent,
                                  Some("getStagedChanges rejected"))
                ELSE IF Len(staged.files) = 0
                THEN CommitResult(FALSE, Absent, Absent,
                        Some("No staged changes found. Stage your changes first using git add."))
                ELSE CommitResult(TRUE,
                                  Some(CommitMessage(br.branchCode, staged, commitInput)),
                                  Some(br.branchCode), Absent)
    /\ UNCHANGED <<commitInput, staged, branchName, fs, fs0, input, entry,
                   modifiedFiles, result, log, diff, fileChanges, fileVars,
                   restVars>>

NextCommit == \E branchOk, stagedOk \in BOOLEAN : GenerateCommit(branchOk, stagedOk)

SpecCommit == InitCommit /\ [][NextCommit]_vars

-----------------------------------------------------------------------------
(* Concurrent calls: addCommentsToDiff at the granularity of its awaits.    *)
(* The tool handler awaits addComments, so a second request is served while *)
(* a file operation of the first has not settled.  A call runs from one     *)
(* await to the next without interruption; readFile takes the text of the   *)
(* file, and writeFile replaces it, at the moment the operation settles.    *)

\* the calls in flight
CallIds == {1, 2}

\* the branch code of the branch both calls run on
AsyncBranchCode == <<"F", "L", "Y", "A", "-", "1", "0", "0">>

\* the comment text of each of the concurrent calls: "c" and "d"
AsyncComment == <<<<"c">>, <<"d">>>>

\* the diff texts of the concurrent calls
AsyncDiffs == {DiffTwoFiles, DiffFarThenNear}

\* a file operation that has been issued and has not settled; text is what a
\* writeFile writes
FileOp(op, k, text) == [op |-> op, entry |-> k, text |-> text]

\* history: a file operation of call c is issued, or settles
Event(c, phase, op, file, ok) ==
    [call |-> c, phase |-> phase, op |-> op, file |-> file, ok |-> ok]

\* mutant of Push: the path is put in front
Unshift(list, filePath) == <<filePath>> \o list

\* modifiedFiles.push(filePath)
Push(list, filePath) == Append(list, filePath)

\* the loop of addCommentsToDiff from entry k on: the first entry with
\* recorded lines has its readFile issued, and without such an entry the call
\* returns
Advance(rec, c, k) ==
    IF k > Len(rec.map)
    THEN [rec |-> [rec EXCEPT !.outstanding = {}, !.status = "returned"],
          ev |-> <<>>]
    ELSE [rec |-> [rec EXCEPT !.outstanding = {FileOp("readFile", k, <<>>)}],
          ev |-> <<Event(c, "issue", "readFile", rec.map[k].file, TRUE)>>]

\* addCommentToFile of entry k has returned success
AfterEntry(rec, c, k, success) ==
    Advance([rec EXCEPT !.modifiedFiles =
                IF success THEN Push(rec.modifiedFiles, rec.map[k].file)
                           ELSE rec.modifiedFiles],
            c, NextEntry(rec.map, k, success))

InitAsync ==
    /\ fs \in [{PathA, PathB} -> CallFiles]
    /\ fs0 = fs
    /\ \E diffs \in [CallIds -> AsyncDiffs] :
            inflight = [c \in CallIds |->
                          [diff |-> diffs[c], comment |-> AsyncComment[c],
                           branchCode |-> AsyncBranchCode, status |-> "idle",
                           map |-> NoMap, outstanding |-> {},
                           modifiedFiles |-> <<>>]]
    /\ events = <<>>
    /\ pc = "calls"
    /\ input = NoInput
    /\ branchName = <<>>
    /\ branchResult = NoBranchResult
    /\ entry = 0
    /\ modifiedFiles = <<>>
    /\ result = NoResult
    /\ log = <<>>
    /\ diff = <<>>
    /\ fileChanges = NoMap
    /\ content = <<>>
    /\ original = <<>>
    /\ marks = <<>>
    /\ ncalls = 0
    /\ last = NoCall
    /\ CommitIdle
    /\ WorkLogIdle
    /\ HooksIdle

\* call c of addCommentsToDiff(diff, comment, branchCode) up to its first
\* await: parseDiff, then the loop up to the first readFile
Invoke(c) ==
    /\ inflight[c].status = "idle"
    /\ LET rec == [inflight[c] EXCEPT !.map = parseDiff(inflight[c].diff),
                                      !.status = "running"]
           a == Advance(rec, c, NextAttempt(rec.map, 1))
       IN /\ inflight' = [inflight EXCEPT ![c] = a.rec]
          /\ events' = events \o a.ev
    /\ UNCHANGED <<fs, fs0, pc, input, branchName, branchResult, entry,
                   modifiedFiles, result, log, diff, fileChanges, fileVars,
                   commitInput, staged, commit, workLogVars, hookVars>>

\* the readFile of call c settles (ok says whether it resolves), and
\* addCommentToFile runs on: the line number test, the duplicate test, and
\* either the writeFile is issued or false is returned to the loop
ReadSettles(c, ok) ==
    /\ \E op \in inflight[c].outstanding : op.op = "readFile"
    /\ LET o == CHOOSE op \in inflight[c].outstanding : op.op = "readFile"
           rec == inflight[c]
           e == rec.map[o.entry]
           r == IF ok /\ e.file \in DOMAIN fs
                THEN Annotate(fs[e.file], AnchorLine(e.lines), rec.comment,
                              rec.branchCode)
                ELSE [applied |-> FALSE, text |-> <<>>]
           settled == Event(c, "settle", "readFile", e.file, ok)
       IN IF r.applied
          THEN /\ inflight' = [inflight EXCEPT ![c].outstanding =
                                    {FileOp("writeFile", o.entry, r.text)}]
               /\ events' = events \o <<settled,
                                        Event(c, "issue", "writeFile", e.file, TRUE)>>
          ELSE LET a == AfterEntry(rec, c, o.entry, FALSE)
               IN /\ inflight' = [inflight EXCEPT ![c] = a.rec]
                  /\ events' = events \o <<settled>> \o a.ev
    /\ UNCHANGED <<fs, fs0, pc, input, branchName, branchResult, entry,
                   modifiedFiles, result, log, diff, fileChanges, fileVars,
                   commitInput, staged, commit, workLogVars, hookVars>>

\* the writeFile of call c settles (ok says whether it resolves): the file has
\* the text the call computed, addCommentToFile returns true, or false from
\* its catch block, and the loop moves on
WriteSettles(c, ok) ==
    /\ \E op \in inflight[c].outstanding : op.op = "writeFile"
    /\ LET o == CHOOSE op \in inflight[c].outstanding : op.op = "writeFile"
           rec == inflight[c]
           e == rec.map[o.entry]
           a == AfterEntry(rec, c, o.entry, ok)
       IN /\ fs' = IF ok THEN [fs EXCEPT ![e.file] = o.text] ELSE fs
          /\ inflight' = [inflight EXCEPT ![c] = a.rec]
          /\ events' = events \o <<Event(c, "settle", "writeFile", e.file, ok)>> \o a.ev
    /\ UNCHANGED <<fs0, pc, input, branchName, branchResult, entry,
                   modifiedFiles, result, log, diff, fileChanges, fileVars,
                   commitInput, staged, commit, workLogVars, hookVars>>

NextAsync ==
    \/ \E c \in CallIds : Invoke(c)
    \/ \E c \in CallIds, ok \in BOOLEAN : ReadSettles(c, ok)
    \/ \E c \in CallIds, ok \in BOOLEAN : WriteSettles(c, ok)

SpecAsync == InitAsync /\ [][NextAsync]_vars

-----------------------------------------------------------------------------
(* tools/workLog: categorizeCommits and generateWorkLog *)

\* the keywords of the categories of categorizeCommits
FeatureWords == { <<"f", "e", "a", "t">>, <<"a", "d", "d">>, <<"i", "m", "p", "l", "e", "m", "e",
        "n", "t">> }
FixWords == { <<"f", "i", "x">>, <<"b", "u", "g">>, <<"r", "e", "s", "o", "l", "v", "e">> }
RefactorWords == { <<"r", "e", "f", "a", "c", "t", "o", "r">>, <<"r", "e", "s", "t", "r", "u",
        "c", "t", "u", "r", "e">>, <<"i", "m", "p", "r", "o", "v", "e">> }

\* message.includes(w) for one of the words
IncludesAny(message, words) == \E w \in words : Includes(message, w)

\* mutant of Category: the fix keywords are tested before the feature keywords
CategoryFixesFirst(commitMessage) ==
    LET message == ToLowerCase(commitMessage)
    IN IF IncludesAny(message, FixWords) THEN "fixes"
       ELSE IF IncludesAny(message, FeatureWords) THEN "features"
       ELSE IF IncludesAny(message, RefactorWords) THEN "refactors"
       ELSE "others"

\* the if / else-if chain of categorizeCommits for one commit
Category(commitMessage) ==
    LET message == ToLowerCase(commitMessage)
    IN IF IncludesAny(message, FeatureWords) THEN "features"
       ELSE IF IncludesAny(message, FixWords) THEN "fixes"
       ELSE IF IncludesAny(message, RefactorWords) THEN "refactors"
       ELSE "others"

\* categorizeCommits(commits): per category, commit.message.split("\n")[0] of
\* its commits in the order of the list
RECURSIVE categorizeCommits(_)
categorizeCommits(list) ==
    IF Len(list) = 0
    THEN [features |-> <<>>, fixes |-> <<>>, refactors |-> <<>>, others |-> <<>>]
    ELSE LET n == Len(list)
             c == categorizeCommits(SubSeq(list, 1, n - 1))
             k == Category(list[n])
         IN [c EXCEPT ![k] = Append(c[k], Split(list[n])[1])]

\* generatePendingWork(): getStagedFiles resolves with the paths or rejects
generatePendingWork(files, ok) ==
    IF ~ok THEN <<>>
    ELSE IF Len(files) = 0 THEN << <<"N", "o", " ", "p", "e", "n", "d", "i", "n", "g", " ", "c",
        "h", "a", "n", "g", "e", "s">> >>
    ELSE << NumChars(Len(files)) \o <<" ", "f", "i", "l", "e", "(", "s", ")", " ", "s", "t", "a",
        "g", "e", "d", " ", "b", "u", "t", " ", "n", "o", "t", " ", "c", "o", "m", "m", "i", "t",
        "t", "e", "d">>,
            <<"R", "e", "v", "i", "e", "w", " ", "a", "n", "d", " ", "c", "o", "m", "m", "i", "t",
        " ", "s", "t", "a", "g", "e", "d", " ", "c", "h", "a", "n", "g", "e", "s">> >>

\* items.forEach((msg) => { workLog += `- ${msg}\n` })
RECURSIVE LogItems(_)
LogItems(items) ==
    IF Len(items) = 0 THEN <<>>
    ELSE <<"-", " ">> \o items[1] \o <<NL>> \o LogItems(Tail(items))

\* a section of the work log, added only when it has items
LogSection(title, items) ==
    IF Len(items) > 0 THEN <<NL>> \o title \o <<NL>> \o LogItems(items) ELSE <<>>

\* the titles of the sections
FeaturesTitle == <<"F", "e", "a", "t", "u", "r", "e", "s", ":">>
FixesTitle == <<"B", "u", "g", " ", "F", "i", "x", "e", "s", ":">>
RefactorsTitle == <<"R", "e", "f", "a", "c", "t", "o", "r", "i", "n", "g", ":">>
OthersTitle == <<"O", "t", "h", "e", "r", " ", "C", "h", "a", "n", "g", "e", "s", ":">>

\* the work log generateWorkLog builds for a list with at least one commit
WorkLogText(dateStr, branchCode, name, list, pendingItems) ==
    LET categories == categorizeCommits(list)
    IN <<"D", "a", "t", "e", ":", " ">> \o dateStr \o <<NL>>
        \o <<"B", "r", "a", "n", "c", "h", ":", " ">> \o branchCode \o <<NL>>
        \o <<"C", "o", "m", "m", "i", "t", "s", ":", " ">> \o NumChars(Len(list)) \o <<NL>>
        \o <<NL, "W", "o", "r", "k", " ", "L", "o", "g", ":", NL>>
        \o LogSection(FeaturesTitle, categories.features)
        \o LogSection(FixesTitle, categories.fixes)
        \o LogSection(RefactorsTitle, categories.refactors)
        \o LogSection(OthersTitle, categories.others)
        \o <<NL, "P", "e", "n", "d", "i", "n", "g", ":", NL>> \o LogItems(pendingItems)
        \o <<NL, "S", "u", "m", "m", "a", "r", "y", ":", NL>>
        \o <<"-", " ", "T", "o", "t", "a", "l", " ", "c", "o", "m", "m", "i", "t", "s", ":",
        " ">> \o NumChars(Len(list)) \o <<NL>>
        \o <<"-", " ", "F", "i", "l", "e", "s", " ", "m", "o", "d", "i", "f", "i", "e", "d", ":",
        " ", "C", "h", "e", "c", "k", " ", "g", "i", "t", " ", "l", "o", "g", " ", "f", "o", "r",
        " ", "d", "e", "t", "a", "i", "l", "s", NL>>
        \o <<"-", " ", "B", "r", "a", "n", "c", "h", ":", " ">> \o name \o <<NL>>

\* the work log for a date without commits
EmptyWorkLogText(dateStr, branchCode) ==
    <<"D", "a", "t", "e", ":", " ">> \o dateStr \o <<NL>> \o <<"B", "r", "a", "n", "c", "h", ":",
        " ">> \o branchCode
        \o <<NL, NL, "W", "o", "r", "k", " ", "L", "o", "g", ":", NL, "-", " ", "N", "o", " ",
        "c", "o", "m", "m", "i", "t", "s", " ", "f", "o", "u", "n", "d", " ", "f", "o", "r", " ",
        "t", "h", "i", "s", " ", "d", "a", "t", "e", NL, NL, "P", "e", "n", "d", "i", "n", "g",
        ":", NL, "-", " ", "C", "h", "e", "c", "k", " ", "f", "o", "r", " ", "u", "n", "c", "o",
        "m", "m", "i", "t", "t", "e", "d", " ", "c", "h", "a", "n", "g", "e", "s">>

\* the promise of generateWorkLog fulfilled with a result object
WorkLogResult(success, text, date, branchCode, error) ==
    [promise |-> "fulfilled", success |-> success, workLog |-> text,
     date |-> date, branchCode |-> branchCode, error |-> error]

-----------------------------------------------------------------------------
(* The work-log specification: one call of generateWorkLog *)

MaxCommits == 3

\* formatDate(parseDate(input.date)) for the date of the request
DateStr == <<"2", "0", "2", "5", "-", "1", "1", "-", "2", "3">>

\* commit messages: subjects with the keywords of one, of two and of no
\* category, in upper and lower case, and one with a body
WorkLogMessages ==
    { <<"A", "d", "d", " ", "f", "i", "x">>, <<"F", "I", "X", " ", "a">>, <<"i", "m", "p", "r",
        "o", "v", "e">>, <<"d", "o", "c", "s">>, <<"w", "i", "p", NL, NL, "b", "u", "g">>, <<"f",
        "e", "a", "t", "u", "r", "e">> }

InitWorkLog ==
    /\ \E n \in 0..MaxCommits : commits \in [1..n -> WorkLogMessages]
    /\ stagedFiles \in {<<>>, <<PathA, PathB>>}
    /\ workLog = NoWorkLog
    /\ branchName \in CommitBranchNames
    /\ branchResult = NoBranchResult
    /\ pc = "start"
    /\ fs = <<>>
    /\ fs0 = <<>>
    /\ input = NoInput
    /\ entry = 0
    /\ modifiedFiles = <<>>
    /\ result = NoResult
    /\ log = <<>>
    /\ diff = <<>>
    /\ fileChanges = NoMap
    /\ content = <<>>
    /\ original = <<>>
    /\ marks = <<>>
    /\ ncalls = 0
    /\ last = NoCall
    /\ CommitIdle
    /\ AsyncIdle
    /\ HooksIdle

\* generateWorkLog(input): getCurrentBranch resolves with branchName or
\* rejects, getCommitsByDate resolves with commits, getStagedFiles resolves
\* with stagedFiles or rejects
GenerateWorkLog(branchOk, stagedOk) ==
    /\ pc = "start"
    /\ pc' = "done"
    /\ IF ~branchOk
       THEN /\ workLog' = WorkLogResult(FALSE, Absent, Absent, Absent,
                                        Some("getCurrentBranch rejected"))
            /\ UNCHANGED branchResult
       ELSE LET br == extractBranchCode(branchName)
                branchCode == IF br.isValid /\ Truthy(br.branchCode)
                              THEN br.branchCode ELSE <<"N", "/", "A">>
            IN /\ branchResult' = br
               /\ workLog' =
                    IF Len(commits) = 0
                    THEN WorkLogResult(TRUE, Some(EmptyWorkLogText(DateStr, branchCode)),
                                       Some(DateStr), Some(branchCode), Absent)
                    ELSE WorkLogResult(TRUE,
                            Some(WorkLogText(DateStr, branchCode, branchName, commits,
                                    generatePendingWork(stagedFiles, stagedOk))),
                            Some(DateStr), Some(branchCode), Absent)
    /\ UNCHANGED <<commits, stagedFiles, branchName, fs, fs0, input, entry,
                   modifiedFiles, result, log, diff, fileChanges, fileVars,
                   commitInput, staged, commit, asyncVars, hookVars>>

NextWorkLog == \E branchOk, stagedOk \in BOOLEAN : GenerateWorkLog(branchOk, stagedOk)

SpecWorkLog == InitWorkLog /\ [][NextWorkLog]_vars

-----------------------------------------------------------------------------
(* webhooks/github: the handler of POST /github *)

\* A payload is the set of the property paths that have a value in req.body,
\* the path <<>> standing for the body itself, and the value of action.

\* the paths of the payload of a pull_request event
PullRequestPaths ==
    { <<>>, <<"action">>, <<"pull_request">>, <<"pull_request", "number">>,
      <<"pull_request", "title">>, <<"pull_request", "user">>,
      <<"pull_request", "user", "login">>, <<"pull_request", "diff_url">>,
      <<"pull_request", "html_url">>, <<"pull_request", "head">>,
      <<"pull_request", "head", "ref">>, <<"pull_request", "base">>,
      <<"pull_request", "base", "ref">>, <<"repository">>,
      <<"repository", "full_name">> }

\* the paths of the payload of a push event
PushPaths ==
    { <<>>, <<"ref">>, <<"commits">>, <<"commits", "length">>, <<"head_commit">>,
      <<"head_commit", "message">>, <<"pusher">>, <<"pusher", "name">>,
      <<"repository">>, <<"repository", "full_name">> }

\* path p is the path q or lies below it
Below(p, q) == Len(p) >= Len(q) /\ SubSeq(p, 1, Len(q)) = q

\* the payloads made of the paths: the complete one and, for every path, the
\* one that lacks the value at the path and all below it
Lacking(paths) ==
    {paths} \cup {{p \in paths : ~Below(p, q)} : q \in paths}

\* the property accesses of the branch for an opened pull request, in the
\* order of evaluation
PullRequestReads ==
    << <<"pull_request", "number">>, <<"pull_request", "title">>,
       <<"pull_request", "user", "login">>, <<"pull_request", "diff_url">>,
       <<"pull_request", "html_url">>, <<"repository", "full_name">>,
       <<"pull_request", "head", "ref">>, <<"pull_request", "base", "ref">> >>

\* the property accesses of the branch for a push: payload.ref.replace(..),
\* payload.commits.length, payload.head_commit
PushReads ==
    << <<"repository", "full_name">>, <<"ref", "replace">>, <<"commits", "length">>,
       <<"pusher", "name">>, <<"head_commit">> >>

\* evaluating the property access throws a TypeError: an object on the way
\* to the last property is undefined
AccessThrows(has, path) == \E n \in 0..(Len(path) - 1) : SubSeq(path, 1, n) \notin has

\* one of the accesses throws
Throws(has, reads) == \E i \in 1..Len(reads) : AccessThrows(has, reads[i])

\* res.status(status).json({..., status: body})
Response(status, body) == [status |-> status, body |-> body]

\* the try block ran to this point: whether it threw and what it has sent
Ran(thrown, responses) == [thrown |-> thrown, responses |-> responses]

\* mutant of Return: the handler runs on after the response
FallThrough(done, rest) ==
    Ran(rest.thrown, done.responses \o rest.responses)

\* return after a response: the rest of the try block is not run
Return(done, rest) == done

\* the try block of the handler for the event header and the payload
TryBlock(event, payload) ==
    LET other == Ran(FALSE, <<Response(200, "acknowledged")>>)
        push == IF event = "push"
                THEN IF Throws(payload.has, PushReads)
                     THEN Ran(TRUE, <<>>)
                     ELSE Return(Ran(FALSE, <<Response(200, "processed")>>), other)
                ELSE other
    IN IF event = "pull_request" /\ AccessThrows(payload.has, <<"action">>)
       THEN Ran(TRUE, <<>>)
       ELSE IF /\ event = "pull_request"
               /\ <<"action">> \in payload.has
               /\ payload.action = "opened"
       THEN IF Throws(payload.has, PullRequestReads)
            THEN Ran(TRUE, <<>>)
            ELSE Return(Ran(FALSE, <<Response(200, "processed")>>), push)
       ELSE push

\* the handler: the try block, and the catch block when it threw
Handler(event, payload) ==
    LET t == TryBlock(event, payload)
    IN IF t.thrown
       THEN t.responses \o <<Response(500, "Failed to process GitHub webhook")>>
       ELSE t.responses

-----------------------------------------------------------------------------
(* The webhook specification: POST requests and the runs of the handler *)

\* the requests
RequestIds == {1, 2}

\* the x-github-event headers; "" stands for a request without the header
HookEvents == {"pull_request", "push", "issues", ""}

\* the payloads: those of a pull_request event, opened or closed, and those of
\* a push event, complete or lacking one value
HookPayloads ==
    [has : Lacking(PullRequestPaths), action : {"opened", "closed"}]
        \cup [has : Lacking(PushPaths), action : {""}]

NoHook == [state |-> "none", event |-> "", payload |-> [has |-> {}, action |-> ""]]

InitHook ==
    /\ hooks = [r \in RequestIds |-> NoHook]
    /\ sent = [r \in RequestIds |-> <<>>]
    /\ pc = "serving"
    /\ fs = <<>>
    /\ fs0 = <<>>
    /\ input = NoInput
    /\ branchName = <<>>
    /\ branchResult = NoBranchResult
    /\ entry = 0
    /\ modifiedFiles = <<>>
    /\ result = NoResult
    /\ log = <<>>
    /\ diff = <<>>
    /\ fileChanges = NoMap
    /\ content = <<>>
    /\ original = <<>>
    /\ marks = <<>>
    /\ ncalls = 0
    /\ last = NoCall
    /\ CommitIdle
    /\ AsyncIdle
    /\ WorkLogIdle

\* the POST request r arrives
Post(r, event, payload) ==
    /\ hooks[r].state = "none"
    /\ hooks' = [hooks EXCEPT ![r] = [state |-> "received", event |-> event,
                                      payload |-> payload]]
    /\ UNCHANGED <<sent, pc, callVars, diff, fileChanges, fileVars, commitInput,
                   staged, commit, asyncVars, workLogVars>>

\* the handler runs for request r; it has no await and runs to its end
HandleRequest(r) ==
    /\ hooks[r].state = "received"
    /\ hooks' = [hooks EXCEPT ![r].state = "handled"]
    /\ sent' = [sent EXCEPT ![r] = sent[r] \o Handler(hooks[r].event, hooks[r].payload)]
    /\ UNCHANGED <<pc, callVars, diff, fileChanges, fileVars, commitInput,
                   staged, commit, asyncVars, workLogVars>>

NextHook ==
    \/ \E r \in RequestIds, event \in HookEvents, payload \in HookPayloads :
            Post(r, event, payload)
    \/ \E r \in RequestIds : HandleRequest(r)

SpecHook == InitHook /\ [][NextHook]_vars

\* the server runs the handler for every request it has received
SpecHookFair == SpecHook /\ \A r \in RequestIds : WF_vars(HandleRequest(r))

-----------------------------------------------------------------------------
(* Properties of addCommentToFile *)

\* the lines of the file before and after the last call
Before == Split(last.before)
After == Split(content)

Called == last.io # "none"

\* the statement "the line carries a // <tag>: comment": the line is
\* pre \o "//" \o ws \o tag \o ":" \o post with ws a run of whitespace
CarriesTag(line, tag) ==
    \E pre \in 0..Len(line), n \in 0..Len(line) :
        LET rest == SubSeq(line, pre + 1, Len(line)) IN
        /\ StartsWith(rest, <<"/", "/">>)
        /\ Len(rest) >= 2 + n
        /\ \A k \in 3..(2 + n) : rest[k] \in Whitespace
        /\ StartsWith(Substring(rest, 2 + n), tag \o <<":">>)

\* the last call named a line of the file it read
LineInFile == last.lineNumber \in 1..Len(Before)

\* the lines of ls that are not marked as inserted
RECURSIVE Unmarked(_, _)
Unmarked(ls, m) ==
    IF Len(ls) = 0 \/ Len(m) = 0 THEN <<>>
    ELSE (IF m[1] THEN <<>> ELSE <<ls[1]>>) \o Unmarked(Tail(ls), Tail(m))

\* C1: idempotence.  A call whose file-system calls succeed, at a line of the
\* file that carries no comment with the tag, reports the file as modified;
\* every call that directly repeats the arguments of such an applied call
\* reports it as not modified and leaves the text as it found it.
C1_Idempotent ==
    /\ (Called /\ last.io = "ok" /\ LineInFile
          /\ ~CarriesTag(Before[last.lineNumber], last.branchCode))
       => last.applied
    /\ last.rerun => (~last.applied /\ content = last.before)

\* C1 witness: a second call with the arguments of the applied first one was skipped
C1_Witness ==
    ncalls >= 2 /\ last.rerun /\ last.io = "ok" /\ ~last.applied

\* C2: no corruption.  After any sequence of calls the lines of the file
\* without the inserted ones are the original lines, in the original order.
C2_NoCorruption ==
    /\ Len(marks) = Len(After)
    /\ Unmarked(After, marks) = Split(original)

\* C2 witness: two calls inserted a comment each into a file of several lines
C2_Witness ==
    /\ ncalls = 2 /\ last.applied
    /\ Len(Split(original)) >= 2
    /\ Cardinality({i \in 1..Len(marks) : marks[i]}) >= 2
    /\ \E i, j \in 1..Len(marks) : i < j /\ ~marks[i] /\ marks[j]

\* C3: insertion position.  After an applied call at line L the file has one
\* line more, lines 1..L-1 as before, and the former lines L..n at L+1..n+1.
C3_InsertionPosition ==
    last.applied =>
        LET L == last.lineNumber IN
        /\ Len(After) = Len(Before) + 1
        /\ SubSeq(After, 1, L - 1) = SubSeq(Before, 1, L - 1)
        /\ SubSeq(After, L + 1, Len(After)) = SubSeq(Before, L, Len(Before))

\* C4: comment line format.  After an applied call at line L, line L of the
\* file is the leading whitespace of the former line L, "// ", the tag, ": "
\* and the comment text.
C4_CommentLineFormat ==
    last.applied =>
        LET L == last.lineNumber
            target == Before[L]
        IN \E n \in 0..Len(target) :
            /\ \A k \in 1..n : target[k] \in Whitespace
            /\ n < Len(target) => target[n + 1] \notin Whitespace
            /\ After[L] = SubSeq(target, 1, n) \o <<"/", "/", " ">>
                             \o last.branchCode \o <<":", " ">> \o last.comment

\* C5: bounds checking.  A line number below 1 or above the line count is not
\* applied and the file is not written; line 1 and the last line are applied
\* when the line carries no comment with the tag (and the file can be read
\* and written).
C5_BoundsChecking ==
    Called =>
        /\ (last.lineNumber < 1 \/ last.lineNumber > Len(Before))
           => (~last.applied /\ content = last.before)
        /\ (/\ last.lineNumber \in {1, Len(Before)}
            /\ last.io = "ok"
            /\ ~CarriesTag(Before[last.lineNumber], last.branchCode))
           => (last.applied /\ content # last.before)

\* C5 witness: a call at the last line of a file of several lines was applied
C5_Witness ==
    /\ last.applied
    /\ Len(Before) >= 2
    /\ last.lineNumber = Len(Before)

\* C6: duplicate detection.  A call at a line of the file (file readable and
\* writable) is skipped exactly when that line carries a comment with the
\* tag, whatever the comment text of the call.
C6_DuplicateDetection ==
    (Called /\ last.io = "ok" /\ LineInFile) =>
        /\ last.applied <=> ~CarriesTag(Before[last.lineNumber], last.branchCode)
        /\ ~last.applied => content = last.before

\* C6 witness: a call with another comment text against a tagged line was skipped
C6_Witness ==
    /\ Called /\ last.io = "ok" /\ LineInFile /\ ~last.applied
    /\ CarriesTag(Before[last.lineNumber], last.branchCode)
    /\ Before[last.lineNumber]
         # Indent(Before[last.lineNumber])
             \o formatComment(last.branchCode, last.comment)

-----------------------------------------------------------------------------
(* Properties of parseDiff *)

\* the lines of the diff text
DiffSeq == Split(diff)

\* the states of the scan over the lines D: element k + 1 is the state after
\* k lines, what the loop of parseDiff has recorded so far
RECURSIVE ScanTrace(_)
ScanTrace(D) ==
    IF Len(D) = 0 THEN <<ParseStart>>
    ELSE LET t == ScanTrace(SubSeq(D, 1, Len(D) - 1))
         IN Append(t, ParseLine(t[Len(t)], D[Len(D)]))

\* the sequence recorded for a file in a state of the scan
Recorded(st, file) ==
    IF MapHas(st.fileChanges, file) THEN MapGet(st.fileChanges, file) ELSE <<>>

\* the index of the diff line at which entry j of the file's final sequence
\* was appended: from that line on the sequence has at least j entries
Origin(tr, file, j) ==
    CHOOSE i \in 1..(Len(tr) - 1) :
        /\ \A k \in i..(Len(tr) - 1) : Len(Recorded(tr[k + 1], file)) >= j
        /\ Len(Recorded(tr[i], file)) < j

\* the hunk headers of the diff texts, with the numbers they declare
\* (@@ -<old-start>,<old-len> +<new-start>,<new-len> @@, a length left out is 1)
HunkHeaders == {HunkOneLine, HunkAt12}
NewStart(line) == IF line = HunkOneLine THEN 1 ELSE 12
OldLen(line) == IF line = HunkOneLine THEN 1 ELSE 2
NewLen(line) == IF line = HunkOneLine THEN 1 ELSE 3

IsFileHeader(line) == StartsWith(line, <<"+", "+", "+", " ", "b", "/">>)
IsHunkLine(line) == StartsWith(line, <<"@", "@">>)
FirstChar(line) == IF Len(line) = 0 THEN "" ELSE line[1]

\* the last line of D before line i that satisfies Test, 0 when there is none
LastBefore(D, i, Test(_)) ==
    IF \E h \in 1..(i - 1) : Test(D[h])
    THEN CHOOSE h \in 1..(i - 1) :
            Test(D[h]) /\ \A g \in (h + 1)..(i - 1) : ~Test(D[g])
    ELSE 0

\* line i of D lies in a hunk of a file: after a hunk header that follows a
\* file header
InHunk(D, i) ==
    LET h == LastBefore(D, i, IsFileHeader)
        k == LastBefore(D, i, IsHunkLine)
    IN h > 0 /\ k > h /\ D[k] \in HunkHeaders

\* D is a diff the version-control tool writes for one changed file with one
\* hunk: file header, hunk header, then context, removal and addition lines
\* as many as the header declares, the marker "\ No newline at end of file"
\* only directly after the last old or the last new line of the file, and
\* possibly the empty piece after the final newline
GitShaped(D) ==
    LET n == IF Len(D) > 0 /\ D[Len(D)] = <<>> THEN Len(D) - 1 ELSE Len(D)
        Old == {i \in 3..n : FirstChar(D[i]) \in {" ", "-"}}
        New == {i \in 3..n : FirstChar(D[i]) \in {" ", "+"}}
    IN /\ n >= 3
       /\ D[1] = HeaderA
       /\ D[2] \in HunkHeaders
       /\ \A i \in 3..n : FirstChar(D[i]) \in {" ", "-", "+", "\\"}
       /\ Cardinality(Old) = OldLen(D[2])
       /\ Cardinality(New) = NewLen(D[2])
       /\ \E i \in 3..n : FirstChar(D[i]) \in {"-", "+"}
       /\ \A i \in 3..n : FirstChar(D[i]) = "\\" =>
            \/ (i - 1) \in Old /\ \A g \in Old : g <= i - 1
            \/ (i - 1) \in New /\ \A g \in New : g <= i - 1

\* C7: diff line numbering.  Every number recorded stems from a line that
\* starts with "+"; when that line lies in a hunk of a file, the number is the
\* hunk's new-start plus the number of lines between the hunk header and the
\* line that are not removal lines.
C7_LineNumbering ==
    pc = "done" =>
        LET D == DiffSeq
            tr == ScanTrace(D)
        IN \A e \in 1..Len(fileChanges) :
             \A j \in 1..Len(fileChanges[e].lines) :
               LET i == Origin(tr, fileChanges[e].file, j)
                   k == LastBefore(D, i, IsHunkLine)
               IN /\ FirstChar(D[i]) = "+"
                  /\ InHunk(D, i) =>
                       fileChanges[e].lines[j]
                         = NewStart(D[k])
                             + Cardinality({m \in (k + 1)..(i - 1) :
                                              FirstChar(D[m]) # "-"})

\* C7 witness: the example of the specification at a hunk that starts at line
\* 12: context, addition, context gives the addition the number 13
C7_Witness ==
    /\ pc = "done"
    /\ DiffSeq = <<HeaderA, HunkAt12, ContextLine, AdditionLine, ContextLine>>
    /\ fileChanges = <<[file |-> <<"a", ".", "j", "s">>, lines |-> <<13>>]>>

\* the position in the new file of the line of diff line i of a hunk: the
\* hunk's new-start plus the lines of the new file (context, addition) before it
NewFilePosition(D, i) ==
    LET k == LastBefore(D, i, IsHunkLine) IN
    NewStart(D[k])
      + Cardinality({m \in (k + 1)..(i - 1) : FirstChar(D[m]) \in {" ", "+"}})

\* C8: recorded numbers are post-change positions.  For a diff the
\* version-control tool writes, every number recorded is the position of its
\* added line in the new version of the file.
C8_PostChangePositions ==
    pc = "done" =>
        LET D == DiffSeq IN
        GitShaped(D) =>
            LET tr == ScanTrace(D) IN
            \A e \in 1..Len(fileChanges) :
              \A j \in 1..Len(fileChanges[e].lines) :
                fileChanges[e].lines[j]
                  = NewFilePosition(D, Origin(tr, fileChanges[e].file, j))

\* C9: complete sequence.  For a diff the version-control tool writes, the
\* file's sequence has one entry for every line of the hunk that starts with "+".
C9_CompleteSequence ==
    pc = "done" =>
        LET D == DiffSeq IN
        GitShaped(D) =>
            /\ Len(fileChanges) = 1
            /\ Len(fileChanges[1].lines)
                 = Cardinality({i \in 3..Len(D) : FirstChar(D[i]) = "+"})

\* every entry of every sequence is above the entry before it
StrictlyIncreasing ==
    \A e \in 1..Len(fileChanges) :
      \A j \in 2..Len(fileChanges[e].lines) :
        fileChanges[e].lines[j - 1] < fileChanges[e].lines[j]

\* every entry was appended at a line of D that starts with "+"
FromAdditions(D, tr) ==
    \A e \in 1..Len(fileChanges) :
      \A j \in 1..Len(fileChanges[e].lines) :
        FirstChar(D[Origin(tr, fileChanges[e].file, j)]) = "+"

\* C10 as claimed: for every input text the sequences are strictly increasing
\* and every entry stems from an addition line.
C10_StrictlyIncreasingAnyText ==
    pc = "done" =>
        LET D == DiffSeq IN
        StrictlyIncreasing /\ FromAdditions(D, ScanTrace(D))

\* no hunk header of D declares a new-start at or below a number recorded so
\* far for the file the scan is in
HunksAscending(D, tr) ==
    \A k \in 1..Len(D) :
        (D[k] \in HunkHeaders /\ Truthy(tr[k].currentFile)) =>
            LET sofar == Recorded(tr[k], tr[k].currentFile) IN
            \A n \in 1..Len(sofar) : sofar[n] < NewStart(D[k])

\* C10 (amended): for every input text whose hunk headers ascend, the
\* sequences are strictly increasing and every entry stems from an addition line.
C10_StrictlyIncreasing ==
    pc = "done" =>
        LET D == DiffSeq
            tr == ScanTrace(D)
        IN HunksAscending(D, tr) => (StrictlyIncreasing /\ FromAdditions(D, tr))

\* C10 witness: two hunks in ascending order with an addition each
C10_Witness ==
    /\ pc = "done"
    /\ HunksAscending(DiffSeq, ScanTrace(DiffSeq))
    /\ DiffSeq = <<HeaderA, HunkOneLine, AdditionLine, HunkAt12, AdditionLine>>
    /\ fileChanges = <<[file |-> <<"a", ".", "j", "s">>, lines |-> <<1, 12>>]>>

-----------------------------------------------------------------------------
(* Properties of parseDiff on texts that name several files *)

\* the path a file header names
HeaderPath(line) == Substring(line, 6)

\* the first line of D that is a file header naming the path
FirstHeader(D, path) ==
    CHOOSE i \in 1..Len(D) :
        /\ IsFileHeader(D[i]) /\ HeaderPath(D[i]) = path
        /\ \A g \in 1..(i - 1) : ~(IsFileHeader(D[g]) /\ HeaderPath(D[g]) = path)

\* the last line of D that is a file header naming the path
LastHeader(D, path) ==
    CHOOSE i \in 1..Len(D) :
        /\ IsFileHeader(D[i]) /\ HeaderPath(D[i]) = path
        /\ \A g \in (i + 1)..Len(D) : ~(IsFileHeader(D[g]) /\ HeaderPath(D[g]) = path)

\* line i of D is an addition line in the section of the file header at line h:
\* no file header lies between them
AdditionOf(D, h, i) ==
    /\ i > h
    /\ FirstChar(D[i]) = "+"
    /\ \A g \in (h + 1)..i : ~IsFileHeader(D[g])

\* C11: multi-file map.  The keys of the returned map are exactly the paths
\* named by the "+++ b/<path>" lines of the text, each path once, in the order
\* in which the paths first appear; every entry of a file's sequence stems
\* from an addition line in a section of that file and of no other file; a
\* file whose (last) section has no addition line has the empty sequence, and
\* a file with a non-empty path has one entry per addition line of that section
C11_MultiFileMap ==
    pc = "done" =>
        LET D == DiffSeq
            tr == ScanTrace(D)
            Key(k) == fileChanges[k].file
        IN /\ \A k \in 1..Len(fileChanges) :
                \E i \in 1..Len(D) : IsFileHeader(D[i]) /\ HeaderPath(D[i]) = Key(k)
           /\ \A i \in 1..Len(D) : IsFileHeader(D[i]) =>
                \E k \in 1..Len(fileChanges) : Key(k) = HeaderPath(D[i])
           /\ \A k1, k2 \in 1..Len(fileChanges) : k1 < k2 =>
                /\ Key(k1) # Key(k2)
                /\ FirstHeader(D, Key(k1)) < FirstHeader(D, Key(k2))
           /\ \A k \in 1..Len(fileChanges) :
                LET h == LastHeader(D, Key(k))
                    own == {i \in 1..Len(D) : AdditionOf(D, h, i)}
                IN /\ \A j \in 1..Len(fileChanges[k].lines) :
                        LET o == Origin(tr, Key(k), j)
                            f == LastBefore(D, o, IsFileHeader)
                        IN /\ FirstChar(D[o]) = "+"
                           /\ f > 0
                           /\ HeaderPath(D[f]) = Key(k)
                   /\ own = {} => fileChanges[k].lines = <<>>
                   /\ Len(Key(k)) > 0 => Len(fileChanges[k].lines) = Cardinality(own)

\* the locator returned a map with the keys a.js and b.js in that order, each
\* with a sequence of its own
C11_Witness ==
    /\ pc = "done"
    /\ Len(fileChanges) = 2
    /\ fileChanges[1].file = HeaderPath(HeaderA)
    /\ fileChanges[2].file = HeaderPath(HeaderB)
    /\ Len(fileChanges[1].lines) > 0
    /\ Len(fileChanges[2].lines) > 0

\* every character of the text is white space
IsBlankText(text) == \A i \in 1..Len(text) : text[i] \in Whitespace

\* an addition line of D that no file header precedes
AdditionBeforeAnyFile(D, i) ==
    FirstChar(D[i]) = "+" /\ ~IsFileHeader(D[i]) /\ LastBefore(D, i, IsFileHeader) = 0

\* C12: fail-open parsing.  The locator returns a map for every text; the map
\* is empty when the text is empty or white space only, when it has no
\* "+++ b/<path>" line, and when it has no "@@" line; an addition line that no
\* file header precedes leaves no entry in the map
C12_FailOpenParsing ==
    pc = "done" =>
        LET D == DiffSeq
            tr == ScanTrace(D)
        IN /\ IsBlankText(diff) => fileChanges = <<>>
           /\ (\A i \in 1..Len(D) : ~IsFileHeader(D[i])) => fileChanges = <<>>
           /\ (\A i \in 1..Len(D) : ~IsHunkLine(D[i])) => fileChanges = <<>>
           /\ \A i \in 1..Len(D) : AdditionBeforeAnyFile(D, i) =>
                tr[i + 1].fileChanges = tr[i].fileChanges

-----------------------------------------------------------------------------
(* Properties of extractBranchCode *)

\* a code of the form FLY, one uppercase letter, "-" and exactly three digits
\* stands at index i of the name: no fourth digit follows
ExactCodeAt(name, i) ==
    /\ i + 7 <= Len(name)
    /\ SubSeq(name, i, i + 2) = <<"F", "L", "Y">>
    /\ name[i + 3] \in UpperLetters
    /\ name[i + 4] = "-"
    /\ \A d \in 5..7 : name[i + d] \in Digits
    /\ i + 8 <= Len(name) => name[i + 8] \notin Digits

\* C20: branch code pattern.  extractBranchCode reports isValid exactly for the
\* names that carry FLY, one uppercase letter, a hyphen and exactly three
\* digits, and then returns such a code of the name; for every other name
\* (FLY-123, FLYF-12, FLYF-1234) it returns isValid = false, a null code and an
\* error
C20_BranchCodePattern ==
    pc = "done" =>
        LET carries == \E i \in 1..Len(branchName) : ExactCodeAt(branchName, i)
        IN /\ branchResult.isValid <=> carries
           /\ carries =>
                \E i \in 1..Len(branchName) :
                    /\ ExactCodeAt(branchName, i)
                    /\ branchResult.branchCode = SubSeq(branchName, i, i + 7)
           /\ ~carries =>
                /\ branchResult.branchCode = Null
                /\ branchResult.error # Absent

-----------------------------------------------------------------------------
(* Properties of addComments and addCommentsToDiff *)

DiffOps == {"getStagedDiff", "getUnstagedDiff"}

\* the call of addComments has returned
Returned == pc = "returned"

\* the call ran the batch: the diff collaborator resolved with a text that is
\* not blank
Batched ==
    /\ Returned
    /\ \E i \in 1..Len(log) : log[i].op \in DiffOps /\ log[i].ok
    /\ ~IsBlankText(diff)

\* the positions of the history at which the operation was called on the file
CallsOn(op, file) == {i \in 1..Len(log) : log[i].op = op /\ log[i].file = file}

\* the files for which a writeFile call succeeded
Written == {log[i].file : i \in {j \in 1..Len(log) : log[j].op = "writeFile" /\ log[j].ok}}

\* the elements of a sequence
Range(s) == {s[i] : i \in 1..Len(s)}

\* C13: best-effort batch.  In a batch every file of the map with at least one
\* recorded line is attempted (read), whatever happened to the files before
\* it; a file whose write failed is not in filesModified; filesModified lists,
\* each once, exactly the files that were written; success is true iff
\* filesModified is not empty
C13_BestEffortBatch ==
    Batched =>
        /\ \A k \in 1..Len(fileChanges) :
                Len(fileChanges[k].lines) > 0 =>
                    CallsOn("readFile", fileChanges[k].file) # {}
        /\ result.filesModified # Absent
        /\ LET filesModified == result.filesModified[1]
           IN /\ \A i \in 1..Len(log) :
                    log[i].op = "writeFile" /\ ~log[i].ok =>
                        log[i].file \notin Range(filesModified)
              /\ Range(filesModified) = Written
              /\ \A i, j \in 1..Len(filesModified) :
                    filesModified[i] = filesModified[j] => i = j
              /\ result.success <=> filesModified # <<>>

\* a batch over two files in which the first file was not modified (its line
\* is invalid) and the second was: one modified file, success
C13_Witness ==
    /\ Batched
    /\ diff = DiffFarThenNear
    /\ CallsOn("writeFile", PathB) = {}
    /\ result.filesModified = Some(<<PathA>>)
    /\ result.success

\* the number of lines of the text that carry a // <tag>: comment
TaggedLines(text, tag) ==
    Cardinality({i \in 1..Len(Split(text)) : CarriesTag(Split(text)[i], tag)})

\* C14: single-site annotation per file.  In a batch every file of the map is
\* read at most once and written at most once, every such call targets the
\* lowest line number recorded for the file, the file gains at most one
\* comment (one more line carrying the tag, as many lines as the comment has),
\* and files the diff does not name stay as they were
C14_SingleSitePerFile ==
    Batched =>
        /\ \A k \in 1..Len(fileChanges) :
            LET f == fileChanges[k].file
                ls == fileChanges[k].lines
                calls == CallsOn("readFile", f) \cup CallsOn("writeFile", f)
            IN /\ Cardinality(CallsOn("readFile", f)) <= 1
               /\ Cardinality(CallsOn("writeFile", f)) <= 1
               /\ \A i \in calls :
                    /\ \E j \in 1..Len(ls) : log[i].line = ls[j]
                    /\ \A j \in 1..Len(ls) : log[i].line <= ls[j]
               /\ f \in DOMAIN fs =>
                    /\ TaggedLines(fs[f], branchResult.branchCode)
                         <= TaggedLines(fs0[f], branchResult.branchCode) + 1
                    /\ Len(Split(fs[f]))
                         <= Len(Split(fs0[f])) + Len(Split(input.comment))
        /\ \A f \in DOMAIN fs :
                (\A k \in 1..Len(fileChanges) : fileChanges[k].file # f) =>
                    fs[f] = fs0[f]

\* a batch over a file with two hunks and two recorded lines, 1 and 13: the
\* file was written once, at line 1
C14_Witness ==
    /\ Batched
    /\ diff = DiffTwoHunks
    /\ Len(fileChanges[1].lines) = 2
    /\ PathB \in Written
    /\ fs[PathB] # fs0[PathB]

\* the annotation of line lineNumber of the text with the tag applies: the
\* text has such a line and the line carries no // <tag>: comment
Applies(text, lineNumber, tag) ==
    /\ lineNumber \in 1..Len(Split(text))
    /\ ~CarriesTag(Split(text)[lineNumber], tag)

\* C15: write only when applied.  At every point of a call of addComments:
\* writeFile is called on a file only directly after a successful readFile of
\* that file whose target line is valid and carries no comment of the branch
\* code, so after a skip (invalid line, duplicate) or a failed read no write
\* follows; the files listed as modified were written; a file without a
\* successful write has the content it had before the call
C15_WriteOnlyWhenApplied ==
    /\ \A i \in 1..Len(log) :
        log[i].op = "writeFile" =>
            /\ i > 1
            /\ log[i - 1].op = "readFile"
            /\ log[i - 1].file = log[i].file
            /\ log[i - 1].line = log[i].line
            /\ log[i - 1].ok
            /\ log[i].file \in DOMAIN fs0
            /\ Applies(fs0[log[i].file], log[i].line, branchResult.branchCode)
    /\ Range(modifiedFiles) \subseteq Written
    /\ Returned /\ result.filesModified # Absent =>
            Range(result.filesModified[1]) \subseteq Written
    /\ \A f \in DOMAIN fs : f \notin Written => fs[f] = fs0[f]

\* a batch in which a.js was read and skipped as a duplicate, without a write,
\* and b.js was annotated and written
C15_Witness ==
    /\ Batched
    /\ fs0[PathA] = TaggedFile
    /\ \E i \in CallsOn("readFile", PathA) : log[i].ok /\ log[i].line = 1
    /\ CallsOn("writeFile", PathA) = {}
    /\ PathB \in Written
    /\ result.filesModified = Some(<<PathB>>)

\* C16: no exception escapes.  The promise of addComments is never rejected,
\* whichever collaborator fails (branch lookup, diff retrieval, file read,
\* file write) and whatever the request; when the call has returned, the
\* promise is fulfilled with an object that has a boolean success and a
\* message
C16_NoExceptionEscapes ==
    /\ result.promise # "rejected"
    /\ Returned =>
        /\ result.promise = "fulfilled"
        /\ result.success \in BOOLEAN
        /\ result.message.text # ""
    /\ ~Returned => result.promise = "pending"

\* the call returned after the diff retrieval rejected: the promise is
\* fulfilled with the result of the catch block
C16_Witness ==
    /\ Returned
    /\ \E i \in 1..Len(log) : ~log[i].ok /\ log[i].op \in DiffOps
    /\ result.promise = "fulfilled"
    /\ ~result.success
    /\ result.error # Absent

\* the request names the source "file" and leaves out filePath or lineNumber
LacksFileFields ==
    /\ input.source = Some("file")
    /\ input.filePath = Absent \/ input.lineNumber = Absent

\* C17: required fields for source "file".  For a request with source "file"
\* that has no filePath or no lineNumber, no diff is fetched and no file is
\* modified at any point of the call, and the call returns success = false
C17_RequiredFileFields ==
    LacksFileFields =>
        /\ \A i \in 1..Len(log) : log[i].op \notin DiffOps
        /\ fs = fs0
        /\ Returned => ~result.success

\* the diff collaborator resolved with a blank text for a request whose source
\* is staged (named or by default) or unstaged
BlankDiffFetched ==
    /\ Len(log) > 0
    /\ log[Len(log)].op \in DiffOps
    /\ log[Len(log)].ok
    /\ IsBlankText(diff)
    /\ Source(input) \in {"staged", "unstaged"}

\* C18: empty diff short-circuit.  When the source is staged or unstaged and
\* the diff fetched is empty or white space only, addComments returns
\* success = false with the message "No <source> changes found" for that
\* source, and no file is read or written
C18_EmptyDiffShortCircuit ==
    BlankDiffFetched =>
        /\ Returned
        /\ result.promise = "fulfilled"
        /\ ~result.success
        /\ result.message.text = "No ${source} changes found"
        /\ result.message.source = Source(input)
        /\ (log[Len(log)].op = "getStagedDiff") <=> (Source(input) = "staged")
        /\ \A i \in 1..Len(log) : log[i].op \notin {"readFile", "writeFile"}
        /\ fs = fs0

\* the unstaged diff was fetched and is white space only
C18_Witness ==
    /\ BlankDiffFetched
    /\ diff = BlankDiff
    /\ input.source = Some("unstaged")
    /\ Returned

\* the name carries a code the validator accepts: FLY, an uppercase letter, a
\* hyphen and three digits
CarriesCode(name) ==
    \E i \in 1..(Len(name) - 7) :
        LET s == SubSeq(name, i, i + 7)
        IN /\ SubSeq(s, 1, 3) = <<"F", "L", "Y">>
           /\ s[4] \in UpperLetters
           /\ s[5] = "-"
           /\ {s[6], s[7], s[8]} \subseteq Digits

\* the branch lookup resolved with a name that carries no valid code
NoCodeBranch ==
    /\ Len(log) > 0
    /\ log[1].op = "getCurrentBranch"
    /\ log[1].ok
    /\ ~CarriesCode(branchName)

\* C19: branch code precondition.  When the name of the current branch
\* carries no valid branch code, addComments returns success = false with the
\* message "Failed to extract branch code" and the validator's error text,
\* whatever the source of the request; the branch lookup is the only
\* collaborator call: no diff is fetched and no file is read or written
C19_BranchCodePrecondition ==
    NoCodeBranch =>
        /\ Returned
        /\ result.promise = "fulfilled"
        /\ ~result.success
        /\ result.message.text = "Failed to extract branch code"
        /\ result.error = extractBranchCode(branchName).error
        /\ result.error \in
             { Some("Branch name is empty"),
               Some("No valid branch code found. Expected format: FLY[A-Z]-[0-9]{3}") }
        /\ Len(log) = 1
        /\ fs = fs0

\* a request with source "file", a path and a line on a branch with a
\* two-digit code was turned down
C19_Witness ==
    /\ NoCodeBranch
    /\ Len(branchName) > 0
    /\ input.source = Some("file")
    /\ input.filePath # Absent
    /\ input.lineNumber = Some(1)
    /\ Returned

-----------------------------------------------------------------------------
(* Further properties of addCommentToFile *)

\* C21: single inserted line.  Every applied annotation adds exactly one line
\* to the file, whatever the comment text: the file has one line more after
\* the call than it had before it
C21_SingleInsertedLine ==
    last.applied => Len(Split(content)) = Len(Split(last.before)) + 1

-----------------------------------------------------------------------------
(* Properties of generateCommit *)

\* C22: commit message header.  Every successful result of generateCommit has
\* a commit message whose first line is the branch code of the current branch,
\* ": " and a summary of at most 30 characters; when no file is staged the
\* result is success = false without a commit message
C22_CommitMessageHeader ==
    pc = "done" =>
        /\ commit.promise = "fulfilled"
        /\ commit.success =>
            /\ commit.commitMessage # Absent
            /\ commit.branchCode # Absent
            /\ CarriesCode(commit.branchCode[1])
            /\ Includes(branchName, commit.branchCode[1])
            /\ LET first == Split(commit.commitMessage[1])[1]
                   prefix == commit.branchCode[1] \o <<":", " ">>
               IN /\ StartsWith(first, prefix)
                  /\ Len(first) - Len(prefix) <= 30
                  /\ Len(first) - Len(prefix) > 0
        /\ Len(staged.files) = 0 =>
            /\ ~commit.success
            /\ commit.commitMessage = Absent

\* a successful result whose message has the header and all three sections
C22_Witness ==
    /\ pc = "done"
    /\ commit.success
    /\ Len(Split(commit.commitMessage[1])) > 6
    /\ Len(staged.files) = 2

-----------------------------------------------------------------------------
(* Further properties of parseDiff *)

\* C23: the line cursor does not leak between files.  Every line number
\* recorded for a file stems from a hunk header of that file: between the file
\* header of the section the entry was recorded in and the addition line that
\* produced it there is a hunk header the locator parses, and the number is
\* that header's new-start plus the lines counted since; no number stems from
\* an earlier file's hunk header or from the cursor's initial value
C23_NoCursorLeak ==
    pc = "done" =>
        LET D == DiffSeq
            tr == ScanTrace(D)
        IN \A k \in 1..Len(fileChanges) :
             \A j \in 1..Len(fileChanges[k].lines) :
                LET o == Origin(tr, fileChanges[k].file, j)
                    f == LastBefore(D, o, IsFileHeader)
                    h == LastBefore(D, o, LAMBDA l : HunkMatch(l) # <<>>)
                IN /\ h > f
                   /\ fileChanges[k].lines[j] >= ParseInt(HunkMatch(D[h]))
                   /\ fileChanges[k].lines[j] < ParseInt(HunkMatch(D[h])) + (o - h)


\* the lines of a text as an editor counts them: each newline ends a line, and
\* what follows the last newline is a line only when it is not empty
TextLines(text) ==
    LET ls == Split(text)
    IN IF ls[Len(ls)] = <<>> THEN SubSeq(ls, 1, Len(ls) - 1) ELSE ls

\* C27: the anchor is always a line of the file.  An applied call has its line
\* number among the text lines of the file it read: no comment is applied to
\* an empty file, nor at the position after the last newline-terminated line
\* of a text that ends with a newline
C27_AnchorIsLineOfFile ==
    last.applied =>
        /\ last.before # <<>>
        /\ last.lineNumber \in 1..Len(TextLines(last.before))

-----------------------------------------------------------------------------
(* Further properties of addComments and addCommentsToDiff *)

\* the text of the first addition line the diff has in the sections of the
\* file at entry k of the map
FirstAddedText(k) ==
    LET D == DiffSeq
    IN Substring(D[Origin(ScanTrace(D), fileChanges[k].file, 1)], 1)

\* C25: the anchor is the first added line.  In a batch over the staged or
\* the unstaged changes, for every file reported as modified, the line
\* directly below the inserted comment in the rewritten working-tree file is
\* the text of the first added line of that file's diff
C25_AnchorIsFirstAddedLine ==
    Batched /\ result.filesModified # Absent =>
        \A k \in 1..Len(fileChanges) :
            fileChanges[k].file \in Range(result.filesModified[1]) =>
                LET after == Split(fs[fileChanges[k].file])
                    below == AnchorLine(fileChanges[k].lines)
                                + Len(Split(input.comment))
                IN /\ below <= Len(after)
                   /\ after[below] = FirstAddedText(k)

\* what happened to the file at entry k of the map in a batch whose file
\* operations all succeeded: the comment was inserted, or the attempt was
\* skipped because the line carries a comment of the branch code, or because
\* the file has no line of that number
Outcome(k) ==
    LET f == fileChanges[k].file
        lines == Split(fs0[f])
        lineNumber == AnchorLine(fileChanges[k].lines)
    IN IF lineNumber \notin 1..Len(lines) THEN "skipped-invalid-line"
       ELSE IF CarriesTag(lines[lineNumber], branchResult.branchCode)
       THEN "skipped-duplicate"
       ELSE "inserted"

\* what the result says about the file at entry k: whether filesModified
\* lists it (success, message and branchCode are about the batch as a whole)
Reported(k) == fileChanges[k].file \in Range(result.filesModified[1])

\* the entries the batch attempted
Attempted == {k \in 1..Len(fileChanges) : Len(fileChanges[k].lines) > 0}

\* C28: per-file outcome.  In a batch whose file operations all succeeded,
\* every attempted file was read (no skip aborts the batch), and two files to
\* which different things happened (inserted, skipped as a duplicate, skipped
\* for an invalid line) are reported differently in the result
C28_PerFileOutcome ==
    (Batched /\ \A i \in 1..Len(log) : log[i].ok) =>
        /\ \A k \in Attempted : CallsOn("readFile", fileChanges[k].file) # {}
        /\ \A k, g \in Attempted :
                Outcome(k) # Outcome(g) => Reported(k) # Reported(g)

-----------------------------------------------------------------------------
(* Properties of concurrent calls *)

\* every call in flight has returned
AllReturned == \A c \in CallIds : inflight[c].status = "returned"

\* the text has the comment line of call c: white space, then the formatted
\* comment of the call
HasCommentOf(text, c) ==
    \E i \in 1..Len(Split(text)) :
        LET line == Split(text)[i]
        IN Substring(line, IndentLen(line, 1))
              = formatComment(inflight[c].branchCode, inflight[c].comment)

\* C24: concurrent invocations on one file.  Once both calls have returned,
\* every file a call reports as modified has the comment line of that call,
\* however the reads and writes of the two calls were interleaved
C24_NoLostInsertion ==
    AllReturned =>
        \A c \in CallIds :
            \A i \in 1..Len(inflight[c].modifiedFiles) :
                HasCommentOf(fs[inflight[c].modifiedFiles[i]], c)

\* the events of call c, in order
RECURSIVE EventsOf(_, _)
EventsOf(ev, c) ==
    IF ev = <<>> THEN <<>>
    ELSE (IF ev[1].call = c THEN <<ev[1]>> ELSE <<>>) \o EventsOf(Tail(ev), c)

\* the position of the path among the file headers of the call's diff
AppearsAt(c, path) == FirstHeader(Split(inflight[c].diff), path)

\* C26: strictly sequential batch.  Within one call an operation is issued
\* only when every operation issued before it has settled, so at most one
\* file operation of the call is outstanding; the files are read one after
\* another in the order in which they first appear in the diff, a file's write
\* follows its own read directly, and filesModified lists the files in that
\* same order
C26_StrictlySequential ==
    \A c \in CallIds :
        LET ev == EventsOf(events, c)
            mf == inflight[c].modifiedFiles
        IN /\ Cardinality(inflight[c].outstanding) <= 1
           /\ \A p \in 1..Len(ev) :
                /\ ev[p].phase = "issue" <=> p % 2 = 1
                /\ ev[p].phase = "settle" =>
                        ev[p].op = ev[p - 1].op /\ ev[p].file = ev[p - 1].file
                /\ ev[p].phase = "issue" /\ ev[p].op = "writeFile" =>
                        /\ p > 2
                        /\ ev[p - 1].op = "readFile" /\ ev[p - 1].ok
                        /\ ev[p - 1].file = ev[p].file
           /\ \A p, q \in 1..Len(ev) :
                (p < q /\ ev[p].op = "readFile" /\ ev[q].op = "readFile"
                   /\ ev[p].phase = "issue" /\ ev[q].phase = "issue")
                => AppearsAt(c, ev[p].file) < AppearsAt(c, ev[q].file)
           /\ \A i, j \in 1..Len(mf) :
                i < j => AppearsAt(c, mf[i]) < AppearsAt(c, mf[j])

\* a call over two files has returned with both files modified, each read and
\* written in turn
C26_Witness ==
    \E c \in CallIds :
        /\ inflight[c].status = "returned"
        /\ Len(inflight[c].modifiedFiles) = 2
        /\ Len(EventsOf(events, c)) = 8

-----------------------------------------------------------------------------
(* Properties of generateWorkLog *)

\* the items of the run of "- " lines that starts at line i
RECURSIVE ItemsFrom(_, _)
ItemsFrom(lines, i) ==
    IF i <= Len(lines) /\ StartsWith(lines[i], <<"-", " ">>)
    THEN <<Substring(lines[i], 2)>> \o ItemsFrom(lines, i + 1)
    ELSE <<>>

\* the entries the text lists under the title: the items below the title
\* line, none when the text has no such line
Listed(lines, title) ==
    IF \E h \in 1..Len(lines) : lines[h] = title
    THEN ItemsFrom(lines, (CHOOSE h \in 1..Len(lines) : lines[h] = title) + 1)
    ELSE <<>>

\* the rank of the first category, in the order Features, Bug Fixes,
\* Refactoring, with a keyword in the lower-cased message; 4, Other Changes,
\* when there is none
Rank(commitMessage) ==
    LET words == <<FeatureWords, FixWords, RefactorWords>>
        hit(i) == IncludesAny(ToLowerCase(commitMessage), words[i])
    IN IF \E i \in 1..3 : hit(i)
       THEN CHOOSE i \in 1..3 : hit(i) /\ \A j \in 1..(i - 1) : ~hit(j)
       ELSE 4

\* the first lines of the commits of the rank, in commit order
RECURSIVE SubjectsOf(_, _)
SubjectsOf(list, rank) ==
    IF list = <<>> THEN <<>>
    ELSE (IF Rank(list[1]) = rank THEN <<Split(list[1])[1]>> ELSE <<>>)
            \o SubjectsOf(Tail(list), rank)

\* C29: work-log categorisation is a partition.  The work log of a call that
\* succeeded lists under each of Features, Bug Fixes, Refactoring and Other
\* Changes, each title at most once, the first lines of exactly the commits
\* whose first category in that priority order it is, in commit order, so
\* every commit is listed once; and when there are commits the number on the
\* "Commits:" line is the number of listed entries
C29_WorkLogPartition ==
    (pc = "done" /\ workLog.success) =>
        LET lines == Split(workLog.workLog[1])
            titles == <<FeaturesTitle, FixesTitle, RefactorsTitle, OthersTitle>>
            total == Len(Listed(lines, titles[1])) + Len(Listed(lines, titles[2]))
                        + Len(Listed(lines, titles[3])) + Len(Listed(lines, titles[4]))
            counts == {h \in 1..Len(lines) : StartsWith(lines[h], <<"C", "o", "m", "m", "i", "t",
        "s", ":", " ">>)}
        IN /\ \A r \in 1..4 :
                /\ Listed(lines, titles[r]) = SubjectsOf(commits, r)
                /\ Cardinality({h \in 1..Len(lines) : lines[h] = titles[r]}) <= 1
           /\ total = Len(commits)
           /\ Len(commits) > 0 =>
                /\ Cardinality(counts) = 1
                /\ \A h \in counts : Substring(lines[h], 9) = NumChars(total)

\* a work log over three commits of which one has the keywords of two
\* categories and one has its keyword in the body: two sections with entries
C29_Witness ==
    /\ pc = "done" /\ workLog.success
    /\ Len(commits) = 3
    /\ \E i, j \in 1..3 :
            /\ IncludesAny(ToLowerCase(commits[i]), FeatureWords)
            /\ IncludesAny(ToLowerCase(commits[i]), FixWords)
            /\ Len(Split(commits[j])) > 1
    /\ Len(Listed(Split(workLog.workLog[1]), FeaturesTitle)) >= 1
    /\ Len(Listed(Split(workLog.workLog[1]), FixesTitle)) >= 1

-----------------------------------------------------------------------------
(* Properties of the GitHub webhook *)

\* request r was received as an opened pull request, as a push
IsOpenedPullRequest(r) ==
    /\ hooks[r].event = "pull_request"
    /\ <<"action">> \in hooks[r].payload.has
    /\ hooks[r].payload.action = "opened"
IsPush(r) == hooks[r].event = "push"

\* the fields of the payload the handler reads for request r
FieldsRead(r) ==
    IF hooks[r].event = "pull_request"
    THEN {<<"action">>} \cup
         (IF IsOpenedPullRequest(r)
          THEN { <<"pull_request", "number">>, <<"pull_request", "title">>,
                 <<"pull_request", "user", "login">>, <<"pull_request", "diff_url">>,
                 <<"pull_request", "html_url">>, <<"repository", "full_name">>,
                 <<"pull_request", "head", "ref">>, <<"pull_request", "base", "ref">> }
          ELSE {})
    ELSE IF IsPush(r)
    THEN { <<"repository", "full_name">>, <<"ref">>, <<"commits">>,
           <<"pusher", "name">>, <<"head_commit">> }
    ELSE {}

\* the response to request r when no error is answered
Processed(r) ==
    IF IsOpenedPullRequest(r) \/ IsPush(r)
    THEN Response(200, "processed")
    ELSE Response(200, "acknowledged")

\* the status-500 response
Failed == Response(500, "Failed to process GitHub webhook")

\* every request that was received is answered, and no request has more than
\* one response
AnsweredOnce ==
    /\ [](\A r \in RequestIds :
            /\ Len(sent[r]) <= 1
            /\ hooks[r].state = "handled" => Len(sent[r]) = 1
            /\ hooks[r].state # "handled" => sent[r] = <<>>)
    /\ \A r \in RequestIds : (hooks[r].state = "received") ~> (Len(sent[r]) = 1)

Dereferenced(r) ==
    IF IsOpenedPullRequest(r)
    THEN { <<>>, <<"pull_request">>, <<"pull_request", "user">>, <<"repository">>,
           <<"pull_request", "head">>, <<"pull_request", "base">> }
    ELSE IF hooks[r].event = "pull_request" THEN { <<>> }
    ELSE IF IsPush(r)
    THEN { <<>>, <<"repository">>, <<"ref">>, <<"commits">>, <<"pusher">> }
    ELSE {}

=============================================================================
